---- MODULE Spec2Model ----
(***************************************************************************)
(* TusaBot (bot.py, db.py): the per-user conversation state machine, the   *)
(* subscription check and the poster list, as a state machine.             *)
(*                                                                         *)
(* Representation.                                                         *)
(*  - A text (Python str) is a sequence of one-character tokens.           *)
(*  - An optional value (a dict key that may be missing, or None) is a     *)
(*    sequence of length <= 1: << >> is None/missing, <<v>> is v.          *)
(*  - A flag of user_data that the code only tests for truth               *)
(*    (awaiting_*, registered) is a BOOLEAN; missing, None and False       *)
(*    are all FALSE.                                                       *)
(*  - "the pool is missing" and "the DB call raised" leave the same state  *)
(*    in every handler (both skip the write / keep user_data), so one      *)
(*    boolean per DB call stands for both.                                 *)
(***************************************************************************)
EXTENDS Integers, Sequences, FiniteSets, TLC

\* ------------------------------------------------------------------------
\* Characters and Python's str predicates
\* ------------------------------------------------------------------------

DecimalChars == {"0", "1", "2", "3", "4", "5", "6", "7", "8", "9"}

\* "SUP2" stands for U+00B2: str.isdigit() is True for it, int() rejects it.
DigitChars == DecimalChars \cup {"SUP2"}

LetterChars ==
    {"a", "b", "c", "d", "e", "f", "h", "i", "m", "n", "o", "p", "s", "t", "x",
     "A", "B"}

WhiteChars == {" "}

\* \w of the re module
WordChars == LetterChars \cup DigitChars \cup {"_"}

\* the class [\w\-._~:/?#\[\]@!$&'()*+,;=%] of is_valid_url
UrlPathChars ==
    WordChars \cup {"-", ".", "~", ":", "/", "?", "#", "[", "]", "@", "!", "$",
                    "&", "'", "(", ")", "*", "+", ",", ";", "=", "%"}

DecimalValue(c) ==
    CASE c = "0" -> 0 [] c = "1" -> 1 [] c = "2" -> 2 [] c = "3" -> 3
      [] c = "4" -> 4 [] c = "5" -> 5 [] c = "6" -> 6 [] c = "7" -> 7
      [] c = "8" -> 8 [] c = "9" -> 9

None == << >>

Some(v) == <<v>>

\* str.strip(): leading and trailing whitespace removed
RECURSIVE LStrip(_)
LStrip(s) ==
    IF s # << >> /\ Head(s) \in WhiteChars THEN LStrip(Tail(s)) ELSE s

RECURSIVE RStrip(_)
RStrip(s) ==
    IF s # << >> /\ s[Len(s)] \in WhiteChars
    THEN RStrip(SubSeq(s, 1, Len(s) - 1))
    ELSE s

Strip(s) == RStrip(LStrip(s))

\* str.lstrip('@')
RECURSIVE LStripAt(_)
LStripAt(s) ==
    IF s # << >> /\ Head(s) = "@" THEN LStripAt(Tail(s)) ELSE s

\* str.isdigit()
IsDigit(s) == s # << >> /\ \A i \in 1..Len(s) : s[i] \in DigitChars

\* str.isalnum()
IsAlnum(s) ==
    s # << >> /\ \A i \in 1..Len(s) : s[i] \in LetterChars \cup DigitChars

StartsWith(s, p) == Len(s) >= Len(p) /\ SubSeq(s, 1, Len(p)) = p

RECURSIVE DecimalNumber(_)
DecimalNumber(s) ==
    IF s = << >> THEN 0
    ELSE IF s[Len(s)] = "_" THEN DecimalNumber(SubSeq(s, 1, Len(s) - 1))
    ELSE 10 * DecimalNumber(SubSeq(s, 1, Len(s) - 1)) + DecimalValue(s[Len(s)])

\* the digits of an int() literal: decimal digits, single underscores between
IsIntBody(s) ==
    /\ s # << >>
    /\ s[1] \in DecimalChars
    /\ s[Len(s)] \in DecimalChars
    /\ \A i \in 1..Len(s) : s[i] \in DecimalChars \cup {"_"}
    /\ \A i \in 1..(Len(s) - 1) : ~(s[i] = "_" /\ s[i + 1] = "_")

\* int(text): None for ValueError, Some(n) otherwise
ParseInt(text) ==
    LET s == Strip(text)
        signed == s # << >> /\ s[1] \in {"+", "-"}
        body == IF signed THEN Tail(s) ELSE s
    IN  IF ~IsIntBody(body) THEN None
        ELSE IF signed /\ s[1] = "-" THEN Some(0 - DecimalNumber(body))
        ELSE Some(DecimalNumber(body))

\* ------------------------------------------------------------------------
\* Validators (bot.py 12-20)
\* ------------------------------------------------------------------------

CaptionLimit == 1024

HttpPrefix == <<"h", "t", "t", "p", ":", "/", "/">>

HttpsPrefix == <<"h", "t", "t", "p", "s", ":", "/", "/">>

\* length of the longest prefix of s whose characters are all in cs
RECURSIVE Span(_, _)
Span(s, cs) ==
    IF s # << >> /\ Head(s) \in cs THEN 1 + Span(Tail(s), cs) ELSE 0

Drop(s, n) == SubSeq(s, n + 1, Len(s))

\* [\w\-]+(\.[\w\-]+)+ against the whole of h: labels separated by dots,
\* at least two labels, none empty
RECURSIVE IsDottedHost(_, _)
IsDottedHost(h, dots) ==
    LET n == Span(h, WordChars \cup {"-"})
        rest == Drop(h, n)
    IN  /\ n >= 1
        /\ IF rest = << >> THEN dots >= 1
           ELSE Head(rest) = "." /\ IsDottedHost(Tail(rest), dots + 1)

\* (:\d+)?(/[...]*)?$ ; \d is any Unicode decimal digit
UrlTailOk(t) ==
    LET hasPort == t # << >> /\ Head(t) = ":"
        nport == IF hasPort THEN Span(Tail(t), DecimalChars) ELSE 0
        afterPort == IF hasPort THEN Drop(t, 1 + nport) ELSE t
    IN  /\ hasPort => nport >= 1
        /\ \/ afterPort = << >>
           \/ /\ Head(afterPort) = "/"
              /\ Span(Tail(afterPort), UrlPathChars) = Len(afterPort) - 1

\* is_valid_url on a str (the callers pass the stored option's value)
is_valid_url(url) ==
    LET u == Strip(url)
        rest == IF StartsWith(u, HttpsPrefix) THEN Drop(u, Len(HttpsPrefix))
                ELSE Drop(u, Len(HttpPrefix))
        nhost == Span(rest, WordChars \cup {"-", "."})
    IN  /\ url # << >>
        /\ StartsWith(u, HttpPrefix) \/ StartsWith(u, HttpsPrefix)
        /\ IsDottedHost(SubSeq(rest, 1, nhost), 0)
        /\ UrlTailOk(Drop(rest, nhost))

is_valid_caption(c) == Len(c) <= CaptionLimit

\* ------------------------------------------------------------------------
\* State
\* ------------------------------------------------------------------------

VARIABLES
    user_data,      \* context.user_data of each user (PTB keeps one dict per user)
    db,             \* the users table: tg_id -> row, or None
    known_users,    \* bot_data["known_users"]
    admins,         \* bot_data["admins"]
    ADMIN_IDS,      \* ADMIN_USER_ID, ADMIN_USER_ID_2, ADMIN_USER_ID_3 that are set
    VK_ENABLED,     \* bool(VK_TOKEN)
    poster,         \* bot_data["poster"]: a reference to a poster dict, or None
    all_posters,    \* bot_data["all_posters"]: a list of references
    heap,           \* the poster dicts the two above refer to
    jobs,           \* the do_weekly_broadcast runs in flight, one per trigger
    last            \* the last event handled and what it replied (history)

vars ==
    <<user_data, db, known_users, admins, ADMIN_IDS, VK_ENABLED, poster,
      all_posters, heap, jobs, last>>

Users == {1, 2}

\* update.effective_user.username
Username(u) == IF u = 1 THEN <<"a", "d", "m">> ELSE <<"b", "o", "b">>

\* the most poster dicts alive at once in a run of the model
MaxPosters == 2

\* a list of MaxPosters, a current poster outside it, one dict per running
\* broadcast
PosterRefs == 1..(MaxPosters + 3)

\* what starts a broadcast: the weekly timer, admin:broadcast_now
Triggers == {"timer", "admin"}

\* truth of an optional str: present and not empty
Truthy(o) == o # None /\ o[1] # << >>

\* user_data of a user the bot has never seen: the empty dict
EmptyUserData ==
    [name |-> None, gender |-> None, age |-> None, registered |-> FALSE,
     registration_step |-> None, vk_id |-> None,
     awaiting_vk |-> FALSE, awaiting_ticket |-> FALSE,
     awaiting_broadcast_text |-> FALSE, awaiting_username_check |-> FALSE,
     continuous_check_mode |-> FALSE, poster_draft |-> None,
     missed_in_row |-> 0, attended_weeks |-> {}]

NoCheck ==
    [tg1 |-> "", tg2 |-> "", vk |-> "", line1 |-> "", line2 |-> "",
     line3 |-> "", passed |-> FALSE]

\* the history record of an event
Event(op, u, data, text, route, out, chk) ==
    [op |-> op, u |-> u, data |-> data, text |-> text, route |-> route,
     out |-> out, chk |-> chk]

\* ------------------------------------------------------------------------
\* db.py
\* ------------------------------------------------------------------------

AgeMin == 14

AgeMax == 100

CoalesceOverwrite(new, old) == new

Coalesce(new, old) == IF new # None THEN new ELSE old

\* the CHECK constraints of the users table
RowAllowed(row) ==
    /\ row.gender # None => row.gender[1] \in {"male", "female"}
    /\ row.age # None => row.age[1] >= AgeMin /\ row.age[1] <= AgeMax

\* INSERT ... ON CONFLICT (tg_id) DO UPDATE SET f = COALESCE(EXCLUDED.f, users.f)
MergedRow(rowOpt, name, gender, age, vk_id, username) ==
    IF rowOpt = None
    THEN [name |-> name, gender |-> gender, age |-> age, vk_id |-> vk_id,
          username |-> username]
    ELSE [name |-> Coalesce(name, rowOpt[1].name),
          gender |-> Coalesce(gender, rowOpt[1].gender),
          age |-> Coalesce(age, rowOpt[1].age),
          vk_id |-> Coalesce(vk_id, rowOpt[1].vk_id),
          username |-> Coalesce(username, rowOpt[1].username)]

\* upsert_user as its callers see it: ok = FALSE is "no pool, or the call
\* raised" (the callers catch and log); a CHECK violation raises too.
upsert_user(rowOpt, ok, name, gender, age, vk_id, username) ==
    LET row == MergedRow(rowOpt, name, gender, age, vk_id, username)
    IN  IF ok /\ RowAllowed(row) THEN Some(row) ELSE rowOpt

\* set_vk_id: UPDATE users SET vk_id WHERE tg_id (no row: nothing to update)
set_vk_id(rowOpt, ok, vk_id) ==
    IF ok /\ rowOpt # None
    THEN Some([rowOpt[1] EXCEPT !.vk_id = Some(vk_id)])
    ELSE rowOpt

\* get_user_by_username: the tg_ids whose username matches
UsersByUsername(username) ==
    {u \in Users : db[u] # None /\ db[u][1].username = Some(username)}

\* ------------------------------------------------------------------------
\* bot.py helpers
\* ------------------------------------------------------------------------

get_adminsEveryone == Users

\* get_admins: the env admins are added to bot_data["admins"] at every call
get_admins == admins \cup ADMIN_IDS

\* load_user_data_from_db: ud is the user's dict, rowOpt the user's row;
\* ok = FALSE is "no pool, or get_user raised": the dict is left as it is
load_user_data_from_db(ud, rowOpt, ok) ==
    IF ~ok THEN ud
    ELSE IF rowOpt # None
    THEN [ud EXCEPT !.name = rowOpt[1].name,
                    !.gender = rowOpt[1].gender,
                    !.age = rowOpt[1].age,
                    !.vk_id = IF Truthy(rowOpt[1].vk_id)
                              THEN rowOpt[1].vk_id ELSE @,
                    !.registered = /\ Truthy(rowOpt[1].name)
                                   /\ rowOpt[1].gender # None
                                   /\ rowOpt[1].age # None]
    ELSE [ud EXCEPT !.registered = FALSE, !.name = None, !.gender = None,
                    !.age = None, !.vk_id = None]

\* start / menu: is_registered
IsRegistered(ud) ==
    ud.registered /\ Truthy(ud.name) /\ ud.gender # None /\ ud.age # None

\* start: has_partial_data
HasPartialData(ud) == Truthy(ud.name) \/ ud.gender # None \/ ud.age # None

ResumeStepOnlyFresh(ud) ==
    IF HasPartialData(ud) THEN ud.registration_step ELSE Some("name")

\* start: the registration_step it leaves for a user who is not registered
ResumeStepFirstName(ud) == Some("name")

ResumeStep(ud) ==
    IF HasPartialData(ud)
    THEN IF ~Truthy(ud.name) THEN Some("name")
         ELSE IF ud.gender = None THEN Some("gender")
         ELSE IF ud.age = None THEN Some("age")
         ELSE ud.registration_step
    ELSE Some("name")

\* ------------------------------------------------------------------------
\* /start
\* ------------------------------------------------------------------------

StartUserData(ud) ==
    IF IsRegistered(ud)
    THEN [ud EXCEPT !.registration_step = None, !.awaiting_vk = FALSE,
                    !.awaiting_username_check = FALSE]
    ELSE [ud EXCEPT !.registration_step = ResumeStep(ud)]

Start(u, upsertOk, loadOk) ==
    LET row1 == upsert_user(db[u], upsertOk, None, None, None, None,
                            Some(Username(u)))
        ud1 == load_user_data_from_db(user_data[u], row1, loadOk)
        ud2 == StartUserData(ud1)
    IN  /\ known_users' = known_users \cup {u}
        /\ db' = [db EXCEPT ![u] = row1]
        /\ user_data' = [user_data EXCEPT ![u] = ud2]
        /\ last' = Event("start", u, "", << >>, "",
                         IF IsRegistered(ud1) THEN "registered" ELSE "resume",
                         NoCheck)
        /\ UNCHANGED <<admins, ADMIN_IDS, VK_ENABLED, poster, all_posters, heap,
                       jobs>>

\* ------------------------------------------------------------------------
\* The environment of one handler run: what each outside call answers
\* ------------------------------------------------------------------------

\* get_chat_member: a member status, a non-member status, or an exception
TgOutcomes == {"member", "left", "error"}

\* what is_user_subscribed_vk returns with the integration enabled
VkOutcomes == {"true", "false", "none"}

\* db1..db3: the handler's DB calls in program order (TRUE: pool present and
\* the call returned); tg1, tg2: get_chat_member on the two channels;
\* vk: the VK check; chat: get_chat("@name"); reply: the report was delivered
Env(db1, db2, db3, tg1, tg2, vk, chat, reply) ==
    [db1 |-> db1, db2 |-> db2, db3 |-> db3, tg1 |-> tg1, tg2 |-> tg2,
     vk |-> vk, chat |-> chat, reply |-> reply]

DbEnvs(n) ==
    {Env(a, b, c, "member", "member", "true", None, TRUE) :
        a \in IF n >= 1 THEN BOOLEAN ELSE {TRUE},
        b \in IF n >= 2 THEN BOOLEAN ELSE {TRUE},
        c \in IF n >= 3 THEN BOOLEAN ELSE {TRUE}}

\* The VK API answers only when it is asked: with VK disabled no call is made
VkAnswers == IF VK_ENABLED THEN VkOutcomes ELSE {"none"}

\* check_all: the reload, both channel calls and the VK call
CheckAllEnvs ==
    {Env(a, TRUE, TRUE, t1, t2, v, None, TRUE) :
        a \in BOOLEAN, t1 \in TgOutcomes, t2 \in TgOutcomes, v \in VkAnswers}

\* the username resolution of a lookup: the DB search raised, or it answered
\* and get_chat resolves the name to nobody or to user 2
Resolutions == {<<FALSE, None>>, <<TRUE, None>>, <<TRUE, Some(2)>>}

\* a lookup: when the first reply raises nothing after it is consulted; when
\* the row fetch raises the VK call is not made; an ID is not resolved
LookupEnvs(text) ==
    LET res == IF IsDigit(Strip(text)) THEN {<<TRUE, None>>} ELSE Resolutions
    IN  {Env(r[1], TRUE, TRUE, "member", "member", "none", r[2], FALSE) :
            r \in res}
        \cup {Env(r[1], FALSE, TRUE, t1, t2, "none", r[2], TRUE) :
            r \in res, t1 \in TgOutcomes, t2 \in TgOutcomes}
        \cup {Env(r[1], TRUE, TRUE, t1, t2, v, r[2], TRUE) :
            r \in res, t1 \in TgOutcomes, t2 \in TgOutcomes,
            v \in VkAnswers}

\* ------------------------------------------------------------------------
\* Subscription checks
\* ------------------------------------------------------------------------

\* is_user_subscribed: one channel's bool from its get_chat_member call
ChannelOk(call) == call = "member"

\* is_user_subscribed_vk(vk_id) as its callers see it: "true", "false", "none"
is_user_subscribed_vk(enabled, answer) == IF enabled THEN answer ELSE "none"

\* the report line of a Telegram channel: only two icons exist
TgLine(ok) == IF ok THEN "ok" ELSE "not_member"

\* the VK line of both reports; "" when the integration is off
VkLine(enabled, linked, vk_status) ==
    IF ~enabled THEN ""
    ELSE IF ~linked THEN "not_linked"
    ELSE IF vk_status = "none" THEN "could_not_verify"
    ELSE IF vk_status = "true" THEN "ok"
    ELSE "not_member"

\* check_all: all_tg_ok and (not VK_ENABLED or not vk_id or vk_status)
CheckAllPassedVkAlways(tg1_ok, tg2_ok, enabled, linked, vk_status) ==
    tg1_ok /\ tg2_ok /\ (~linked \/ vk_status = "true")

CheckAllPassed(tg1_ok, tg2_ok, enabled, linked, vk_status) ==
    tg1_ok /\ tg2_ok /\ (~enabled \/ ~linked \/ vk_status = "true")

\* username check: tg1_ok and tg2_ok and (not VK_ENABLED or vk_status)
LookupPassed(tg1_ok, tg2_ok, enabled, vk_status) ==
    tg1_ok /\ tg2_ok /\ (~enabled \/ vk_status = "true")

\* ------------------------------------------------------------------------
\* handle_registration_step
\* ------------------------------------------------------------------------

\* the name written to the DB when user_data has none
NotSpecified == <<"N", "/", "A">>

AgeInRangeStrict(age) == ~(age <= AgeMin \/ age >= AgeMax)

\* not (age < 14 or age > 100)
AgeInRange(age) == ~(age < AgeMin \/ age > AgeMax)

Result(ud, row, p, h, out, chk) ==
    [ud |-> ud, row |-> row, poster |-> p, heap |-> h, out |-> out, chk |-> chk]

RegistrationName(ud, rowOpt, text, env, u) ==
    LET name == Strip(text)
    IN  Result([ud EXCEPT !.name = Some(name),
                          !.registration_step = Some("gender")],
               upsert_user(rowOpt, env.db1, Some(name), None, None, None,
                           Some(Username(u))),
               poster, heap, "name_saved", NoCheck)

RegistrationAge(ud, rowOpt, text, env, u) ==
    LET parsed == ParseInt(text)
    IN  IF parsed = None
        THEN Result(ud, rowOpt, poster, heap, "age_format", NoCheck)
        ELSE IF ~AgeInRange(parsed[1])
        THEN Result(ud, rowOpt, poster, heap, "age_range", NoCheck)
        ELSE
          LET age == parsed[1]
              ud1 == [ud EXCEPT !.age = Some(age), !.registered = TRUE,
                                !.registration_step = None]
              \* name from memory, else SELECT name FROM users
              ud2 == IF /\ ~Truthy(ud1.name)
                        /\ env.db1
                        /\ rowOpt # None
                        /\ Truthy(rowOpt[1].name)
                     THEN [ud1 EXCEPT !.name = rowOpt[1].name]
                     ELSE ud1
              name == IF Truthy(ud2.name) THEN ud2.name ELSE Some(NotSpecified)
          IN  Result(ud2,
                     upsert_user(rowOpt, env.db2, name, ud2.gender, Some(age),
                                 ud2.vk_id, Some(Username(u))),
                     poster, heap, "age_accepted", NoCheck)

handle_registration_step(ud, rowOpt, text, env, u) ==
    IF ud.registration_step = Some("name")
    THEN RegistrationName(ud, rowOpt, text, env, u)
    ELSE IF ud.registration_step = Some("age")
    THEN RegistrationAge(ud, rowOpt, text, env, u)
    ELSE Result(ud, rowOpt, poster, heap, "ignored", NoCheck)

\* ------------------------------------------------------------------------
\* Poster dicts
\* ------------------------------------------------------------------------

PosterDict(file_id, caption, ticket_url) ==
    [file_id |-> file_id, caption |-> caption, ticket_url |-> ticket_url]

FreeRefs(h) == {r \in PosterRefs : h[r] = None}

\* the reference a newly created dict gets
NewRef(h) == CHOOSE r \in FreeRefs(h) : \A q \in FreeRefs(h) : r <= q

\* dicts no longer referenced are dropped; a running broadcast still refers
\* to its latest_poster
CollectJobs(h, p, list, js) ==
    [r \in PosterRefs |->
        IF \/ p = Some(r)
           \/ \E i \in 1..Len(list) : list[i] = r
           \/ \E t \in Triggers : js[t] # None /\ js[t][1].latest = r
        THEN h[r] ELSE None]

Collect(h, p, list) == CollectJobs(h, p, list, jobs)

\* ------------------------------------------------------------------------
\* handle_text: the routes after registration
\* ------------------------------------------------------------------------

RowOf(target) == IF target \in Users THEN db[target] ELSE None

LookupReport(target, env) ==
    LET tg1_ok == ChannelOk(env.tg1)
        tg2_ok == ChannelOk(env.tg2)
        row == IF env.db2 THEN RowOf(target) ELSE None
        vk_id == IF row # None THEN row[1].vk_id ELSE None
        called == Truthy(vk_id) /\ VK_ENABLED
        vk_status == IF called THEN is_user_subscribed_vk(VK_ENABLED, env.vk)
                     ELSE "none"
    IN  [tg1 |-> env.tg1, tg2 |-> env.tg2,
         vk |-> IF called THEN vk_status ELSE "unchecked",
         line1 |-> TgLine(tg1_ok), line2 |-> TgLine(tg2_ok),
         line3 |-> VkLine(VK_ENABLED, Truthy(vk_id), vk_status),
         passed |-> LookupPassed(tg1_ok, tg2_ok, VK_ENABLED, vk_status)]

\* what a handled lookup does to awaiting_username_check
LookupDoneAlwaysClear(ud) == [ud EXCEPT !.awaiting_username_check = FALSE]

LookupDone(ud) ==
    IF ud.continuous_check_mode THEN ud
    ELSE [ud EXCEPT !.awaiting_username_check = FALSE]

LookupRoute(ud, rowOpt, text, env) ==
    LET input_text == Strip(text)
        isId == IsDigit(input_text)
        parsed == ParseInt(input_text)
        username == LStripAt(input_text)
        inDb == IF env.db1 THEN UsersByUsername(username) ELSE {}
        \* get_chat is tried only when the DB answered "no such username"
        target == IF isId THEN parsed
                  ELSE IF inDb # {} THEN Some(CHOOSE t \in inDb : TRUE)
                  ELSE IF env.db1 THEN env.chat
                  ELSE None
    IN  IF isId /\ parsed = None
        THEN Result(LookupDone(ud), rowOpt, poster, heap, "error", NoCheck)
        ELSE IF ~isId /\ (target = None \/ target[1] = 0)
        THEN Result(LookupDone(ud), rowOpt, poster, heap, "not_found", NoCheck)
        ELSE IF target[1] = 0
        THEN Result(IF env.reply THEN ud ELSE LookupDone(ud), rowOpt, poster,
                    heap, "no_id", NoCheck)
        ELSE IF ~env.reply
        THEN Result(LookupDone(ud), rowOpt, poster, heap, "error", NoCheck)
        ELSE Result(LookupDone(ud), rowOpt, poster, heap, "found",
                    LookupReport(target[1], env))

TicketRoute(ud, rowOpt, text) ==
    LET url == Strip(text)
        ud1 == [ud EXCEPT !.awaiting_ticket = FALSE]
    IN  IF poster = None
        THEN LET r == NewRef(heap)
             IN  Result(ud1, rowOpt, Some(r),
                        [heap EXCEPT ![r] = Some(PosterDict(None, None, Some(url)))],
                        "ticket_saved", NoCheck)
        ELSE Result(ud1, rowOpt, poster,
                    [heap EXCEPT ![poster[1]] =
                        Some([heap[poster[1]][1] EXCEPT !.ticket_url = Some(url)])],
                    "ticket_saved", NoCheck)

BroadcastTextRoute(ud, rowOpt) ==
    Result([ud EXCEPT !.awaiting_broadcast_text = FALSE], rowOpt, poster, heap,
           "broadcast_sent", NoCheck)

DraftRoute(ud, rowOpt, text) ==
    LET draft == ud.poster_draft[1]
    IN  IF draft.step = "caption"
        THEN Result([ud EXCEPT !.poster_draft =
                        Some([draft EXCEPT !.caption = Some(text), !.step = "link"])],
                    rowOpt, poster, heap, "caption_saved", NoCheck)
        ELSE Result([ud EXCEPT !.poster_draft =
                        Some([draft EXCEPT !.ticket_url = Some(Strip(text)),
                                           !.step = "preview"])],
                    rowOpt, poster, heap, "link_saved", NoCheck)

\* vk_input.lower().startswith('id') and vk_input[2:].isdigit()
IsIdForm(s) ==
    /\ Len(s) >= 2
    /\ s[1] \in {"i", "I"}
    /\ s[2] \in {"d", "D"}
    /\ IsDigit(Drop(s, 2))

NotUnderscoreOrDot(c) == c \notin {"_", "."}

IsValidVkInput(s) ==
    \/ IsDigit(s)
    \/ IsIdForm(s)
    \/ Len(s) >= 3 /\ IsAlnum(SelectSeq(s, NotUnderscoreOrDot))

\* what the three VK API calls of is_user_subscribed_vk can answer:
\* groups.getById an error object, a response, or the request raises;
\* utils.resolveScreenName an error object, an empty response, an object
\* that is not a user, a user, or the request raises; groups.isMember an
\* error object, the number 0 or 1, a dict with member 0 or 1, or the
\* request raises
GroupAnswers == {"error", "response", "raises"}

ResolveAnswers == {"error", "empty", "group", "user", "raises"}

MemberAnswers == {"error", "0", "1", "member0", "member1", "raises"}

MemberResultErrorIsFalse(answer) ==
    IF answer \in {"1", "member1"} THEN "true" ELSE "false"

\* step 3: 'error' in data and the except clause give None, the rest
\* bool(response) or bool(response['member'])
MemberResult(answer) ==
    IF answer \in {"error", "raises"} THEN "none"
    ELSE IF answer \in {"1", "member1"} THEN "true"
    ELSE "false"

\* step 2: 'id123' and '123' need no lookup
NeedsResolve(vk_user_id) ==
    LET raw == Strip(vk_user_id)
    IN  ~IsIdForm(raw) /\ ~IsDigit(raw)

\* is_user_subscribed_vk in full: its result and the requests it sent
VkMembership(enabled, vk_user_id, group, resolve, member) ==
    IF ~enabled THEN [result |-> "none", calls |-> << >>]
    ELSE IF group # "response"
    THEN [result |-> "none", calls |-> <<"getById">>]
    ELSE IF NeedsResolve(vk_user_id)
    THEN IF resolve # "user"
         THEN [result |-> "none", calls |-> <<"getById", "resolveScreenName">>]
         ELSE [result |-> MemberResult(member),
               calls |-> <<"getById", "resolveScreenName", "isMember">>]
    ELSE [result |-> MemberResult(member), calls |-> <<"getById", "isMember">>]

\* one call of is_user_subscribed_vk with the API answering as given
VkCheckCall(vk_user_id, group, resolve, member) ==
    /\ last' = Event("vk_check", 0, "", vk_user_id, "",
                     VkMembership(VK_ENABLED, vk_user_id, group, resolve,
                                  member).result,
                     [group |-> group, resolve |-> resolve, member |-> member,
                      calls |-> VkMembership(VK_ENABLED, vk_user_id, group,
                                             resolve, member).calls])
    /\ UNCHANGED <<user_data, db, known_users, admins, ADMIN_IDS, VK_ENABLED,
                   poster, all_posters, heap, jobs>>

VkRoute(ud, rowOpt, text, env) ==
    LET vk_input == Strip(text)
        ud1 == [ud EXCEPT !.awaiting_vk = FALSE]
    IN  IF vk_input = << >>
        THEN Result(ud1, rowOpt, poster, heap, "vk_empty", NoCheck)
        ELSE IF ~IsValidVkInput(vk_input)
        THEN Result(ud1, rowOpt, poster, heap, "vk_invalid", NoCheck)
        ELSE Result([ud1 EXCEPT !.vk_id = Some(vk_input)],
                    set_vk_id(rowOpt, env.db1, vk_input),
                    poster, heap, "vk_linked", NoCheck)

TextRouteLookupFirst(ud) ==
    IF ud.awaiting_username_check THEN "lookup"
    ELSE IF ud.registration_step # None THEN "registration"
    ELSE IF ud.awaiting_ticket THEN "ticket"
    ELSE "none"

\* which branch of handle_text takes the text
TextRoute(ud) ==
    IF ud.registration_step # None THEN "registration"
    ELSE IF ud.awaiting_username_check THEN "lookup"
    ELSE IF ud.awaiting_ticket THEN "ticket"
    ELSE IF ud.awaiting_broadcast_text THEN "broadcast_text"
    ELSE IF /\ ud.poster_draft # None
            /\ ud.poster_draft[1].step \in {"caption", "link"} THEN "draft"
    ELSE IF VK_ENABLED /\ ud.awaiting_vk THEN "vk"
    ELSE "none"

TextResult(u, text, env) ==
    LET ud == user_data[u]
        route == TextRoute(ud)
    IN  IF route = "registration"
        THEN handle_registration_step(ud, db[u], text, env, u)
        ELSE IF route = "lookup" THEN LookupRoute(ud, db[u], text, env)
        ELSE IF route = "ticket" THEN TicketRoute(ud, db[u], text)
        ELSE IF route = "broadcast_text" THEN BroadcastTextRoute(ud, db[u])
        ELSE IF route = "draft" THEN DraftRoute(ud, db[u], text)
        ELSE IF route = "vk" THEN VkRoute(ud, db[u], text, env)
        ELSE Result(ud, db[u], poster, heap, "no_op", NoCheck)

\* the outside calls a text in this route makes
TextEnvs(route, text) ==
    IF route = "registration" THEN DbEnvs(2)
    ELSE IF route = "lookup" THEN LookupEnvs(text)
    ELSE IF route = "vk" THEN DbEnvs(1)
    ELSE DbEnvs(0)

\* handle_text with the outside calls answering as env says
HandleTextWith(u, text, env) ==
    \E res \in {TextResult(u, text, env)} :
        /\ user_data' = [user_data EXCEPT ![u] = res.ud]
        /\ db' = [db EXCEPT ![u] = res.row]
        /\ poster' = res.poster
        /\ heap' = res.heap
        /\ last' = Event("text", u, "", text, TextRoute(user_data[u]),
                         res.out, res.chk)
        /\ UNCHANGED <<known_users, admins, ADMIN_IDS, VK_ENABLED, all_posters,
                       jobs>>

handle_text(u, text) ==
    \E env \in TextEnvs(TextRoute(user_data[u]), text) :
        HandleTextWith(u, text, env)

\* ------------------------------------------------------------------------
\* handle_buttons
\* ------------------------------------------------------------------------

\* dict equality: current_poster == deleted_poster, current_poster in all_posters
InList(h, list, r) == \E i \in 1..Len(list) : h[list[i]] = h[r]

FirstEqual(h, list, r) ==
    CHOOSE i \in 1..Len(list) :
        h[list[i]] = h[r] /\ \A j \in 1..(i - 1) : h[list[j]] # h[r]

RemoveAtEnd(list, i) == SubSeq(list, 1, Len(list) - 1)

RemoveAt(list, i) == SubSeq(list, 1, i - 1) \o SubSeq(list, i + 1, Len(list))

\* show_main_menu: a current poster that is not in the list is appended
MenuPosters(h, p, list) ==
    IF p # None /\ ~InList(h, list, p[1]) THEN Append(list, p[1]) ELSE list

ButtonResult(ud, row, p, list, h, adm, out, chk) ==
    [ud |-> ud, row |-> row, poster |-> p, list |-> list, heap |-> h,
     admins |-> adm, out |-> out, chk |-> chk]

Unchanged(ud, row, out) ==
    ButtonResult(ud, row, poster, all_posters, heap, admins, out, NoCheck)

CheckAllReport(ud, env) ==
    LET tg1_ok == ChannelOk(env.tg1)
        tg2_ok == ChannelOk(env.tg2)
        linked == Truthy(ud.vk_id)
        called == VK_ENABLED /\ linked
        vk_status == IF called THEN is_user_subscribed_vk(VK_ENABLED, env.vk)
                     ELSE "none"
    IN  [tg1 |-> env.tg1, tg2 |-> env.tg2,
         vk |-> IF called THEN vk_status ELSE "unchecked",
         line1 |-> TgLine(tg1_ok), line2 |-> TgLine(tg2_ok),
         line3 |-> VkLine(VK_ENABLED, linked, vk_status),
         passed |-> CheckAllPassed(tg1_ok, tg2_ok, VK_ENABLED, linked, vk_status)]

\* show_main_menu after the handler's own loads
ShowMainMenu(ud, row, loadOk, out) ==
    ButtonResult(load_user_data_from_db(ud, row, loadOk), row, poster,
                 MenuPosters(heap, poster, all_posters), heap, admins, out,
                 NoCheck)

\* admin_panel: with no admin at all, the caller becomes one
admin_panel(u) == IF get_admins = {} THEN {u} ELSE get_admins

GenderOf(data) == IF data = "gender_male" THEN "male" ELSE "female"

\* gender_*: what the press leaves in registration_step
GenderStepKeeps(ud) == ud.registration_step

GenderStep(ud) == Some("age")

GenderButton(ud, row, data, env, u) ==
    LET gender == GenderOf(data)
    IN  Unchanged([ud EXCEPT !.gender = Some(gender),
                             !.registration_step = GenderStep(ud)],
                  upsert_user(row, env.db2, None, Some(gender), None, None,
                              Some(Username(u))),
                  "gender_saved")

DeleteIndex(data) ==
    CASE data = "delete_poster:0" -> 0
      [] data = "delete_poster:1" -> 1
      [] data = "delete_poster:2" -> 2
      [] data = "delete_poster:3" -> 3

DeleteData ==
    {"delete_poster:0", "delete_poster:1", "delete_poster:2", "delete_poster:3"}

DeleteByIndex(ud, row, data) ==
    LET i == DeleteIndex(data) + 1
    IN  IF i <= Len(all_posters)
        THEN LET deleted == all_posters[i]
                 list == RemoveAt(all_posters, i)
                 p == IF poster # None /\ heap[poster[1]] = heap[deleted]
                      THEN IF list # << >> THEN Some(list[Len(list)]) ELSE None
                      ELSE poster
             IN  ButtonResult(ud, row, p, list, heap, admins, "deleted", NoCheck)
        ELSE Unchanged(ud, row, "bad_index")

AdminDeletePoster(ud, row, adm) ==
    IF poster = None
    THEN ButtonResult(ud, row, poster, all_posters, heap, adm, "no_poster", NoCheck)
    ELSE LET list == IF InList(heap, all_posters, poster[1])
                     THEN RemoveAt(all_posters,
                                   FirstEqual(heap, all_posters, poster[1]))
                     ELSE all_posters
             p == IF list # << >> THEN Some(list[Len(list)]) ELSE None
         IN  ButtonResult(ud, row, p, list, heap, adm, "deleted", NoCheck)

NewDraft ==
    [step |-> "photo", file_id |-> None, caption |-> None, ticket_url |-> None]

\* caption_ok and link_ok of admin:confirm_poster
CaptionOk(draft) ==
    is_valid_caption(IF Truthy(draft.caption) THEN draft.caption[1] ELSE << >>)

LinkOkAny(draft) == TRUE

LinkOk(draft) == ~Truthy(draft.ticket_url) \/ is_valid_url(draft.ticket_url[1])

\* a rejected confirm returns before poster_draft is popped
RejectedDropsDraft(ud) == [ud EXCEPT !.poster_draft = None]

Rejected(ud) == ud

ConfirmedKeepsDraft(ud) == ud

\* an accepted confirm pops poster_draft
Confirmed(ud) == [ud EXCEPT !.poster_draft = None]

ConfirmPoster(ud, row, adm) ==
    LET draft == IF ud.poster_draft # None THEN ud.poster_draft[1]
                 ELSE [file_id |-> None, caption |-> None, ticket_url |-> None]
    IN  IF ~Truthy(draft.file_id)
        THEN ButtonResult(Rejected(ud), row, poster, all_posters, heap, adm,
                          "no_photo", NoCheck)
        ELSE IF ~CaptionOk(draft)
        THEN ButtonResult(Rejected(ud), row, poster, all_posters, heap, adm,
                          "bad_caption", NoCheck)
        ELSE IF ~LinkOk(draft)
        THEN ButtonResult(Rejected(ud), row, poster, all_posters, heap, adm,
                          "bad_link", NoCheck)
        ELSE LET list0 == all_posters
                 h0 == Collect(heap, None, list0)
                 r == NewRef(h0)
                 dict == PosterDict(draft.file_id,
                                    IF Truthy(draft.caption) THEN draft.caption
                                    ELSE Some(<< >>),
                                    draft.ticket_url)
             IN  ButtonResult(Confirmed(ud), row, Some(r),
                              Append(list0, r), [h0 EXCEPT ![r] = Some(dict)],
                              adm, "confirmed", NoCheck)

AdminData ==
    {"admin:create_poster", "admin:set_ticket", "admin:delete_poster",
     "admin:broadcast_text", "admin:stats", "admin:back_to_panel",
     "admin:confirm_poster", "admin:cancel_poster", "admin:users_count",
     "admin:list_posters", "admin:check_by_username", "admin:stop_check",
     "admin:refresh"}

AdminButton(ud, row, data, u) ==
    LET adm == get_admins
        same(out) ==
            ButtonResult(ud, row, poster, all_posters, heap, adm, out, NoCheck)
        with(ud1, out) ==
            ButtonResult(ud1, row, poster, all_posters, heap, adm, out, NoCheck)
    IN  IF u \notin adm THEN same("denied")
        ELSE IF data = "admin:create_poster"
        THEN with([ud EXCEPT !.poster_draft = Some(NewDraft)], "draft_opened")
        ELSE IF data = "admin:set_ticket"
        THEN with([ud EXCEPT !.awaiting_ticket = TRUE], "await_ticket")
        ELSE IF data = "admin:delete_poster" THEN AdminDeletePoster(ud, row, adm)
        ELSE IF data = "admin:broadcast_text"
        THEN with([ud EXCEPT !.awaiting_broadcast_text = TRUE], "await_broadcast")
        ELSE IF data = "admin:back_to_panel"
        THEN with([ud EXCEPT !.poster_draft = None], "panel")
        ELSE IF data = "admin:confirm_poster" THEN ConfirmPoster(ud, row, adm)
        ELSE IF data = "admin:cancel_poster"
        THEN with([ud EXCEPT !.poster_draft = None], "draft_cancelled")
        ELSE IF data = "admin:check_by_username"
        THEN with([ud EXCEPT !.awaiting_username_check = TRUE,
                             !.continuous_check_mode = TRUE], "await_lookup")
        ELSE IF data = "admin:stop_check"
        THEN with([ud EXCEPT !.awaiting_username_check = FALSE,
                             !.continuous_check_mode = FALSE], "lookup_stopped")
        ELSE same("shown")

\* link_vk: the prompt is armed; no other flag is touched
LinkVk(ud) == [ud EXCEPT !.awaiting_vk = TRUE]

MenuData ==
    {"show_current_poster", "poster", "poster_prev", "poster_next"}

ButtonsResult(u, data, env) ==
    LET ud == load_user_data_from_db(user_data[u], db[u], env.db1)
        row == db[u]
    IN  IF data = "check_all"
        THEN ButtonResult(ud, row, poster, all_posters, heap, admins, "report",
                          CheckAllReport(ud, env))
        ELSE IF data = "link_vk" THEN Unchanged(LinkVk(ud), row, "await_vk")
        ELSE IF data \in MenuData THEN ShowMainMenu(ud, row, env.db2, "menu")
        ELSE IF data = "back_to_menu"
        THEN ShowMainMenu(load_user_data_from_db(ud, row, env.db2), row, env.db3,
                          "menu")
        ELSE IF data = "open_admin"
        THEN ButtonResult(ud, row, poster, all_posters, heap, admin_panel(u),
                          "panel", NoCheck)
        ELSE IF data \in DeleteData THEN DeleteByIndex(ud, row, data)
        ELSE IF data \in {"gender_male", "gender_female"}
        THEN GenderButton(ud, row, data, env, u)
        ELSE IF data \in AdminData THEN AdminButton(ud, row, data, u)
        ELSE Unchanged(ud, row, "shown")

ButtonEnvs(data) ==
    IF data = "check_all" THEN CheckAllEnvs
    ELSE IF data = "back_to_menu" THEN DbEnvs(3)
    ELSE IF data \in MenuData \cup {"gender_male", "gender_female"} THEN DbEnvs(2)
    ELSE DbEnvs(1)

\* handle_buttons with the outside calls answering as env says
HandleButtonsWith(u, data, env) ==
    \E res \in {ButtonsResult(u, data, env)} :
        /\ Len(res.list) <= MaxPosters
        /\ user_data' = [user_data EXCEPT ![u] = res.ud]
        /\ db' = [db EXCEPT ![u] = res.row]
        /\ poster' = res.poster
        /\ all_posters' = res.list
        /\ heap' = Collect(res.heap, res.poster, res.list)
        /\ admins' = res.admins
        /\ last' = Event("button", u, data, << >>, "", res.out, res.chk)
        /\ UNCHANGED <<known_users, ADMIN_IDS, VK_ENABLED, jobs>>

handle_buttons(u, data) ==
    \E env \in ButtonEnvs(data) : HandleButtonsWith(u, data, env)

\* ------------------------------------------------------------------------
\* handle_photo, /menu, /admin
\* ------------------------------------------------------------------------

PhotoTakenAtAnyStep(ud) == ud.poster_draft # None

\* if draft and draft.get("step") == "photo" and update.message.photo
PhotoTaken(ud) == ud.poster_draft # None /\ ud.poster_draft[1].step = "photo"

handle_photo(u, file_id) ==
    LET ud == user_data[u]
        taken == PhotoTaken(ud)
    IN  /\ user_data' =
              IF taken
              THEN [user_data EXCEPT ![u].poster_draft =
                       Some([ud.poster_draft[1] EXCEPT !.file_id = Some(file_id),
                                                       !.step = "caption"])]
              ELSE user_data
        /\ last' = Event("photo", u, "", << >>, "",
                         IF taken THEN "photo_saved" ELSE "ignored", NoCheck)
        /\ UNCHANGED <<jobs, db, known_users, admins, ADMIN_IDS, VK_ENABLED, poster,
                       all_posters, heap>>

menu(u) ==
    \E env \in DbEnvs(2) :
        LET ud1 == load_user_data_from_db(user_data[u], db[u], env.db1)
            shown == IsRegistered(ud1)
            ud2 == IF shown THEN load_user_data_from_db(ud1, db[u], env.db2)
                   ELSE ud1
            list == IF shown THEN MenuPosters(heap, poster, all_posters)
                    ELSE all_posters
        IN  /\ Len(list) <= MaxPosters
            /\ known_users' = known_users \cup {u}
            /\ user_data' = [user_data EXCEPT ![u] = ud2]
            /\ all_posters' = list
            /\ last' = Event("menu", u, "", << >>, "",
                             IF shown THEN "menu" ELSE "register_first", NoCheck)
            /\ UNCHANGED <<db, admins, ADMIN_IDS, VK_ENABLED, poster, heap, jobs>>

admin_command(u) ==
    /\ admins' = admin_panel(u)
    /\ last' = Event("admin", u, "", << >>, "",
                     IF u \in admin_panel(u) THEN "panel" ELSE "denied", NoCheck)
    /\ UNCHANGED <<jobs, user_data, db, known_users, ADMIN_IDS, VK_ENABLED, poster,
                   all_posters, heap>>

\* a direct call of db.upsert_user for user u with the arguments a
UpsertCall(u, a, ok) ==
    /\ db' = [db EXCEPT ![u] = upsert_user(db[u], ok, a.name, a.gender, a.age,
                                           a.vk_id, a.username)]
    /\ last' = Event("upsert", u, "", << >>, "",
                     IF ok THEN "stored" ELSE "raised", a)
    /\ UNCHANGED <<jobs, user_data, known_users, admins, ADMIN_IDS, VK_ENABLED,
                   poster, all_posters, heap>>

\* ------------------------------------------------------------------------
\* Weekly jobs
\* ------------------------------------------------------------------------

\* the week keys the clock can give for the previous week
Weeks == {1, 2}

\* the largest miss counter a run of the model counts up to
MaxMissed == 4

ReengageDueFromTwo(missed_in_row) == missed_in_row >= 2

\* if missed_in_row > 2
ReengageDue(missed_in_row) == missed_in_row > 2

\* one turn of the loop for the session data ud of a known user
FinalizeUser(ud, prev_key) ==
    IF prev_key \in ud.attended_weeks
    THEN [ud EXCEPT !.missed_in_row = 0]
    ELSE [ud EXCEPT !.missed_in_row = ud.missed_in_row + 1]

\* the REENGAGE_TEXT messages one turn of the loop sends
ReengageSends(ud, prev_key) ==
    IF prev_key \in ud.attended_weeks THEN 0
    ELSE IF ReengageDue(ud.missed_in_row + 1) THEN 1 ELSE 0

\* One run over list(known_users) with the previous week's key prev_key.
\* A send that raises is logged and the loop goes on, so the outcome of a
\* send leaves no trace in the state.
finalize_previous_week_and_reengage(prev_key) ==
    /\ \A u \in known_users :
          FinalizeUser(user_data[u], prev_key).missed_in_row <= MaxMissed
    /\ user_data' = [u \in Users |->
                       IF u \in known_users
                       THEN FinalizeUser(user_data[u], prev_key)
                       ELSE user_data[u]]
    /\ last' = Event("finalize", 0, "", << >>, "", "",
                     [prev_key |-> prev_key,
                      reengage |-> [u \in Users |->
                                       IF u \in known_users
                                       THEN ReengageSends(user_data[u], prev_key)
                                       ELSE 0]])
    /\ UNCHANGED <<db, known_users, admins, ADMIN_IDS, VK_ENABLED, poster,
                   all_posters, heap, jobs>>

\* the model's configurations set ADMIN_USER_ID alone of the three ids
ADMIN_USER_ID ==
    IF ADMIN_IDS = {} THEN 0
    ELSE CHOOSE a \in ADMIN_IDS : \A b \in ADMIN_IDS : a <= b

\* send_poster_to_chat reads the last poster of the list just before it
\* awaits the send; with an empty list it sends a text ("no posters yet")
ShownPoster ==
    IF all_posters = << >> THEN None ELSE heap[all_posters[Len(all_posters)]]

SendSurvivesOnSuccess(ok) == ok

\* a send that raises is caught, in send_poster_to_chat or in the loop
SendSurvives(ok) == TRUE

\* success_count += 1 runs when send_poster_to_chat returned: it catches
\* what send_photo raises, and lets through what the "no posters yet" text
\* message raises
SendCounted(shown, ok) == shown # None \/ ok

EndBroadcast(t, j, out) ==
    /\ jobs' = [jobs EXCEPT ![t] = None]
    /\ heap' = CollectJobs(heap, poster, all_posters, [jobs EXCEPT ![t] = None])
    /\ last' = Event("broadcast_end", 0, t, << >>, "", out, j)

AwaitBroadcast(t, j, op) ==
    /\ jobs' = [jobs EXCEPT ![t] = Some(j)]
    /\ heap' = heap
    /\ last' = Event(op, 0, t, << >>, "", j.phase, NoCheck)

\* do_weekly_broadcast up to its first await. latest_poster is taken once;
\* the loop iterates the known_users set itself, in the set's order.
do_weekly_broadcast(t) ==
    IF known_users = {}
    THEN /\ last' = Event("broadcast", 0, t, << >>, "", "no_users", NoCheck)
         /\ UNCHANGED <<jobs, heap>>
    ELSE IF all_posters = << >>
    THEN /\ last' = Event("broadcast", 0, t, << >>, "", "no_posters", NoCheck)
         /\ UNCHANGED <<jobs, heap>>
    ELSE \E user_id \in known_users :
            AwaitBroadcast(t,
                [latest |-> all_posters[Len(all_posters)],
                 start |-> heap[all_posters[Len(all_posters)]],
                 size0 |-> Cardinality(known_users),
                 todo |-> known_users \ {user_id},
                 cur |-> user_id,
                 showing |-> ShownPoster,
                 sends |-> {},
                 success_count |-> 0,
                 vk |-> None,
                 vk_success |-> FALSE,
                 reported |-> FALSE,
                 phase |-> "send"],
                "broadcast")

\* the report to ADMIN_USER_ID, or the end of the run
AfterVk(t, j) ==
    IF ADMIN_USER_ID # 0
    THEN AwaitBroadcast(t, [j EXCEPT !.phase = "report"], "report")
    ELSE EndBroadcast(t, j, "done")

\* broadcast_to_vk(latest_poster) reads the dict when it is called
AfterLoop(t, j) ==
    IF VK_ENABLED
    THEN AwaitBroadcast(t, [j EXCEPT !.phase = "vk", !.vk = heap[j.latest]], "vk")
    ELSE AfterVk(t, j)

\* The awaited send to j.cur returns or raises (ok). The loop then asks the
\* set for its next element, which raises RuntimeError when the set has
\* changed size since the loop began; that error leaves do_weekly_broadcast.
SendReturns(t, ok) ==
    /\ jobs[t] # None
    /\ jobs[t][1].phase = "send"
    /\ \E j \in {[jobs[t][1] EXCEPT
                     !.sends = @ \cup {[u |-> jobs[t][1].cur,
                                        shown |-> jobs[t][1].showing,
                                        ok |-> ok]},
                     !.success_count =
                         IF SendCounted(jobs[t][1].showing, ok)
                         THEN @ + 1 ELSE @]} :
          IF ~SendSurvives(ok) \/ Cardinality(known_users) # j.size0
          THEN EndBroadcast(t, j, "aborted")
          ELSE IF j.todo # {}
          THEN \E user_id \in j.todo :
                  AwaitBroadcast(t, [j EXCEPT !.todo = @ \ {user_id},
                                              !.cur = user_id,
                                              !.showing = ShownPoster], "send")
          ELSE AfterLoop(t, j)
    /\ UNCHANGED <<user_data, db, known_users, admins, ADMIN_IDS, VK_ENABLED,
                   poster, all_posters>>

VkReturns(t, ok) ==
    /\ jobs[t] # None
    /\ jobs[t][1].phase = "vk"
    /\ AfterVk(t, [jobs[t][1] EXCEPT !.vk_success = ok])
    /\ UNCHANGED <<user_data, db, known_users, admins, ADMIN_IDS, VK_ENABLED,
                   poster, all_posters>>

ReportReturns(t) ==
    /\ jobs[t] # None
    /\ jobs[t][1].phase = "report"
    /\ EndBroadcast(t, [jobs[t][1] EXCEPT !.reported = TRUE], "done")
    /\ UNCHANGED <<user_data, db, known_users, admins, ADMIN_IDS, VK_ENABLED,
                   poster, all_posters>>

\* the job the weekly timer runs
weekly_job ==
    /\ jobs["timer"] = None
    /\ do_weekly_broadcast("timer")
    /\ UNCHANGED <<user_data, db, known_users, admins, ADMIN_IDS, VK_ENABLED,
                   poster, all_posters>>

\* handle_buttons with admin:broadcast_now, up to the first await of the
\* broadcast it runs
broadcast_now(u) ==
    \E env \in DbEnvs(1) :
        /\ jobs["admin"] = None
        /\ user_data' = [user_data EXCEPT
                            ![u] = load_user_data_from_db(@, db[u], env.db1)]
        /\ IF u \notin get_admins
           THEN /\ last' = Event("button", u, "admin:broadcast_now", << >>, "",
                                 "denied", NoCheck)
                /\ UNCHANGED <<jobs, heap>>
           ELSE do_weekly_broadcast("admin")
        /\ admins' = get_admins
        /\ UNCHANGED <<db, known_users, ADMIN_IDS, VK_ENABLED, poster,
                       all_posters>>

\* Updates are processed one at a time: no handler starts while the
\* handler of admin:broadcast_now is still awaiting its broadcast. Jobs of
\* the job queue are tasks of their own.
NoUpdateInProgress == jobs["admin"] = None

\* ------------------------------------------------------------------------
\* Specifications
\* ------------------------------------------------------------------------

\* MSK is UTC+3
MskOffsetHours == 3

\* WEEKLY_HOUR_UTC = (WEEKLY_HOUR_LOCAL - 3) % 24
WEEKLY_HOUR_UTC(WEEKLY_HOUR_LOCAL) == (WEEKLY_HOUR_LOCAL - MskOffsetHours) % 24

\* schedule_weekly under a configuration: run_daily is given the UTC time
\* of day and days = (WEEKLY_DAY,)
schedule_weekly(WEEKLY_DAY, WEEKLY_HOUR_LOCAL, WEEKLY_MINUTE) ==
    /\ last' = Event("schedule", 0, "", << >>, "", "",
                     [WEEKLY_DAY |-> WEEKLY_DAY,
                      WEEKLY_HOUR_LOCAL |-> WEEKLY_HOUR_LOCAL,
                      WEEKLY_MINUTE |-> WEEKLY_MINUTE,
                      days |-> {WEEKLY_DAY},
                      hour |-> WEEKLY_HOUR_UTC(WEEKLY_HOUR_LOCAL),
                      minute |-> WEEKLY_MINUTE])
    /\ UNCHANGED <<user_data, db, known_users, admins, ADMIN_IDS, VK_ENABLED,
                   poster, all_posters, heap, jobs>>


InitWith(adminIds, vk, rows) ==
    /\ user_data = [u \in Users |-> EmptyUserData]
    /\ db = rows
    /\ known_users = {u \in Users : rows[u] # None}
    /\ admins = {}
    /\ ADMIN_IDS = adminIds
    /\ VK_ENABLED = vk
    /\ poster = None
    /\ all_posters = << >>
    /\ heap = [r \in PosterRefs |-> None]
    /\ jobs = [t \in Triggers |-> None]
    /\ last = Event("init", 0, "", << >>, "", "", NoCheck)

T13 == <<"1", "3">>

T14 == <<"1", "4">>

T100 == <<"1", "0", "0">>

T101 == <<"1", "0", "1">>

Tabc == <<"a", "b", "c">>

\* Registration: user 2 (not an admin) sends /start, /menu, texts and the
\* buttons of the registration and menu messages, in any order, with every
\* DB call free to fail.
RegTexts == {T13, T14, T100, T101, Tabc}

RegButtons == {"gender_male", "gender_female", "back_to_menu"}

EmptyDb == [u \in Users |-> None]

Init == InitWith({1}, FALSE, EmptyDb)

Next ==
    \/ \E a, b \in BOOLEAN : Start(2, a, b)
    \/ menu(2)
    \/ \E t \in RegTexts : handle_text(2, t)
    \/ \E d \in RegButtons : handle_buttons(2, d)

Spec == Init /\ [][Next]_vars

\* Subscription checks: user 2 presses check_all and links a VK profile;
\* admin 1 runs the bulk lookup. VK is enabled or not; the users table may
\* already hold user 2's row with a linked VK id, written by an earlier run
\* (the table outlives the process, VK_TOKEN is read at import).
Tbob == <<"@", "b", "o", "b">>

Tnobody == <<"@", "x">>

T2 == <<"2">>

T0 == <<"0">>

Tsup2 == <<"SUP2">>

Tvk == <<"i", "d", "1">>

Tbad == <<"a", "!">>

LinkedRow ==
    [name |-> Some(Tabc), gender |-> Some("male"), age |-> Some(14),
     vk_id |-> Some(Tvk), username |-> Some(Username(2))]

CheckRows == {EmptyDb, [EmptyDb EXCEPT ![2] = Some(LinkedRow)]}

LookupTexts == {Tbob, Tnobody, T2, T0, Tsup2}

VkTexts == {Tvk, Tbad}

InitCheck == \E vk \in BOOLEAN, rows \in CheckRows : InitWith({1}, vk, rows)

NextCheck ==
    \/ \E d \in {"check_all", "link_vk"} : handle_buttons(2, d)
    \/ \E t \in VkTexts : handle_text(2, t)
    \/ \E d \in {"admin:check_by_username", "admin:stop_check"} :
          handle_buttons(1, d)
    \/ \E t \in LookupTexts : handle_text(1, t)

SpecCheck == InitCheck /\ [][NextCheck]_vars

\* Input modes: admin 1, whose registration an earlier run left in the users
\* table, opens every prompt the bot has and answers it.
ModeTexts == {T14}

ModeButtons ==
    {"link_vk", "back_to_menu", "open_admin", "admin:create_poster",
     "admin:set_ticket", "admin:broadcast_text", "admin:check_by_username",
     "admin:stop_check", "admin:cancel_poster", "admin:back_to_panel"}

AdminRow ==
    [name |-> Some(Tabc), gender |-> Some("male"), age |-> Some(14),
     vk_id |-> None, username |-> Some(Username(1))]

InitModes == InitWith({1}, FALSE, [EmptyDb EXCEPT ![1] = Some(AdminRow)])

NextModes ==
    \/ \E a, b \in BOOLEAN : Start(1, a, b)
    \/ menu(1)
    \/ admin_command(1)
    \/ \E t \in ModeTexts : handle_text(1, t)
    \/ \E d \in ModeButtons : handle_buttons(1, d)
    \/ handle_photo(1, Tabc)

SpecModes == InitModes /\ [][NextModes]_vars

\* Poster wizard: admin 1 opens a draft, sends the photo, a caption and a
\* link, and confirms at any point; user 2, not an admin, presses confirm too.
Cap1024 == [i \in 1..CaptionLimit |-> "x"]

Cap1025 == [i \in 1..(CaptionLimit + 1) |-> "x"]

UrlFtp == <<"f", "t", "p", ":", "/", "/", "x">>

UrlHttps ==
    <<"h", "t", "t", "p", "s", ":", "/", "/", "x", ".", "c", "o", "m", "/", "a">>

PosterTexts == {Cap1024, Cap1025, UrlFtp, UrlHttps}

PosterButtons ==
    {"admin:create_poster", "admin:confirm_poster", "admin:cancel_poster"}

InitPoster == InitWith({1}, FALSE, EmptyDb)

NextPoster ==
    \/ \E d \in PosterButtons : handle_buttons(1, d)
    \/ handle_buttons(2, "admin:confirm_poster")
    \/ handle_photo(1, Tabc)
    \/ \E t \in PosterTexts : handle_text(1, t)

SpecPoster == InitPoster /\ [][NextPoster]_vars

\* Poster list: admin 1 authors posters, sets the ticket link, deletes by
\* index and deletes the current poster, and opens the menu in between.
ListTexts == {Tabc}

ListButtons ==
    {"admin:create_poster", "admin:confirm_poster", "admin:delete_poster",
     "admin:set_ticket", "delete_poster:0", "delete_poster:1",
     "delete_poster:2", "delete_poster:3", "back_to_menu"}

InitList == InitWith({1}, FALSE, EmptyDb)

NextList ==
    \/ \E d \in ListButtons : handle_buttons(1, d)
    \/ handle_photo(1, Tabc)
    \/ \E t \in ListTexts : handle_text(1, t)

SpecList == InitList /\ [][NextList]_vars

\* The users table under upserts: every combination of present and absent
\* arguments, two values for the age, with the call succeeding or raising.
UpsertArgs ==
    [name : {None, Some(Tabc)}, gender : {None, Some("male")},
     age : {None, Some(14), Some(100)}, vk_id : {None, Some(Tvk)},
     username : {None, Some(Username(2))}]

InitUpsert == InitWith({1}, FALSE, EmptyDb)

NextUpsert == \E a \in UpsertArgs, ok \in BOOLEAN : UpsertCall(2, a, ok)

SpecUpsert == InitUpsert /\ [][NextUpsert]_vars

\* The attendance computation: runs of finalize_previous_week_and_reengage
\* with either week as the previous one, between /start and /menu of the
\* users. The session data is restored from the persistence file, so the
\* attendance sets a run finds are any sets of weeks; user 1 is known from
\* the users table, user 2 becomes known with /start or /menu.
InitWeekly ==
    /\ \E att \in [Users -> SUBSET Weeks] :
          user_data = [u \in Users |->
                          [EmptyUserData EXCEPT !.attended_weeks = att[u]]]
    /\ db = [EmptyDb EXCEPT ![1] = Some(AdminRow)]
    /\ known_users = {1}
    /\ admins = {}
    /\ ADMIN_IDS = {1}
    /\ VK_ENABLED = FALSE
    /\ poster = None
    /\ all_posters = << >>
    /\ heap = [r \in PosterRefs |-> None]
    /\ jobs = [t \in Triggers |-> None]
    /\ last = Event("init", 0, "", << >>, "", "", NoCheck)

NextWeekly ==
    \/ \E prev_key \in Weeks : finalize_previous_week_and_reengage(prev_key)
    \/ Start(2, TRUE, TRUE)
    \/ menu(2)

SpecWeekly == InitWeekly /\ [][NextWeekly]_vars

\* Broadcasts: both users are known from the users table, VK is enabled
\* and ADMIN_USER_ID is set. Admin 1 creates posters from two photos,
\* confirms and deletes them and presses admin:broadcast_now; the weekly
\* timer fires; every awaited send, publication and report returns in its
\* own time (sends that raise are the subject of SpecFanout).
UserRow ==
    [name |-> Some(Tabc), gender |-> Some("male"), age |-> Some(14),
     vk_id |-> None, username |-> Some(Username(2))]

BroadcastRows == [u \in Users |-> IF u = 1 THEN Some(AdminRow) ELSE Some(UserRow)]

BroadcastButtons ==
    {"admin:create_poster", "admin:confirm_poster", "delete_poster:0"}

BroadcastPhotos == {Tabc, T13}

InitBroadcast == InitWith({1}, TRUE, BroadcastRows)

NextBroadcast ==
    \/ weekly_job
    \/ broadcast_now(1)
    \/ \E t \in Triggers : SendReturns(t, TRUE)
    \/ \E t \in Triggers : VkReturns(t, TRUE)
    \/ \E t \in Triggers : ReportReturns(t)
    \/ \E d \in BroadcastButtons : NoUpdateInProgress /\ handle_buttons(1, d)
    \/ \E f \in BroadcastPhotos : NoUpdateInProgress /\ handle_photo(1, f)

SpecBroadcast == InitBroadcast /\ [][NextBroadcast]_vars

\* The fan-out of the timer's broadcast: admin 1 is known from the users
\* table and creates a poster; user 2 becomes known with /start, before or
\* during a run; VK is enabled or not; every send and the publication
\* return or raise.
FanoutButtons == {"admin:create_poster", "admin:confirm_poster"}

InitFanout ==
    \E vk \in BOOLEAN : InitWith({1}, vk, [EmptyDb EXCEPT ![1] = Some(AdminRow)])

NextFanout ==
    \/ weekly_job
    \/ \E ok \in BOOLEAN : SendReturns("timer", ok)
    \/ \E ok \in BOOLEAN : VkReturns("timer", ok)
    \/ ReportReturns("timer")
    \/ Start(2, TRUE, TRUE)
    \/ \E d \in FanoutButtons : handle_buttons(1, d)
    \/ handle_photo(1, Tabc)

SpecFanout == InitFanout /\ [][NextFanout]_vars

\* Priority of the registration step: admin 1 starts unregistered, with VK
\* enabled, arms every prompt and opens a poster draft, then sends /start
\* and texts.
PriorityTexts == {Tabc, T14}

PriorityButtons ==
    {"link_vk", "admin:create_poster", "admin:set_ticket",
     "admin:broadcast_text", "admin:check_by_username"}

InitPriority == InitWith({1}, TRUE, EmptyDb)

NextPriority ==
    \/ Start(1, TRUE, TRUE)
    \/ \E d \in PriorityButtons : handle_buttons(1, d)
    \/ handle_photo(1, Tabc)
    \/ \E t \in PriorityTexts : handle_text(1, t)

SpecPriority == InitPriority /\ [][NextPriority]_vars

\* Who may author: ADMIN_USER_ID names user 1 or nobody; both users press
\* admin buttons and link_vk, call /admin, and send a photo and a text.
AuthorButtons ==
    {"admin:create_poster", "admin:confirm_poster", "admin:set_ticket",
     "link_vk"}

InitAuthor == \E ids \in {{}, {1}} : InitWith(ids, FALSE, EmptyDb)

NextAuthor ==
    \/ \E u \in Users, d \in AuthorButtons : handle_buttons(u, d)
    \/ \E u \in Users : handle_photo(u, Tabc)
    \/ \E u \in Users : handle_text(u, Tabc)
    \/ \E u \in Users : admin_command(u)

SpecAuthor == InitAuthor /\ [][NextAuthor]_vars

\* The VK group check by itself: the token is configured or not, the id is
\* 'id1', '2' or the screen name 'abc', and each of the three API calls
\* answers in every way it can.
VkIds == {Tvk, T2, Tabc}

InitVk == \E vk \in BOOLEAN : InitWith({1}, vk, EmptyDb)

NextVk ==
    \E vk_user_id \in VkIds, group \in GroupAnswers, resolve \in ResolveAnswers,
       member \in MemberAnswers :
        VkCheckCall(vk_user_id, group, resolve, member)

SpecVk == InitVk /\ [][NextVk]_vars

\* Recovery of a registration: user 2 is not registered. The session comes
\* from the persistence file and the row from the users table, each
\* written by earlier runs, so any combination of name, gender, age,
\* registered flag and step can meet any row. The user then sends /start,
\* the name 'abc', presses gender_male and sends the age '14', with the
\* storage answering.
RecoverNames == {None, Some(<< >>), Some(T13)}

RecoverGenders == {None, Some("male"), Some("female")}

RecoverAges == {None, Some(100)}

RecoverSteps == {None, Some("name"), Some("gender"), Some("age")}

RecoverRows ==
    {None} \cup
    {Some([name |-> n, gender |-> g, age |-> a, vk_id |-> None,
           username |-> Some(Username(2))]) :
        n \in RecoverNames, g \in RecoverGenders, a \in RecoverAges}

\* every outside call answers
OkEnv == Env(TRUE, TRUE, TRUE, "member", "member", "true", None, TRUE)

InitRecover ==
    /\ \E n \in RecoverNames, g \in RecoverGenders, a \in RecoverAges,
          r \in BOOLEAN, step \in RecoverSteps :
          user_data = [u \in Users |->
                          IF u = 2
                          THEN [EmptyUserData EXCEPT !.name = n, !.gender = g,
                                                     !.age = a, !.registered = r,
                                                     !.registration_step = step]
                          ELSE EmptyUserData]
    /\ ~IsRegistered(user_data[2])
    /\ \E row \in RecoverRows : db = [EmptyDb EXCEPT ![2] = row]
    /\ known_users = {u \in Users : db[u] # None}
    /\ admins = {}
    /\ ADMIN_IDS = {1}
    /\ VK_ENABLED = FALSE
    /\ poster = None
    /\ all_posters = << >>
    /\ heap = [r \in PosterRefs |-> None]
    /\ jobs = [t \in Triggers |-> None]
    /\ last = Event("init", 0, "", << >>, "", "", NoCheck)

NextRecover ==
    \/ last.op = "init" /\ Start(2, TRUE, TRUE)
    \/ last.op = "start" /\ HandleTextWith(2, Tabc, OkEnv)
    \/ last.op = "text" /\ last.text = Tabc
           /\ HandleButtonsWith(2, "gender_male", OkEnv)
    \/ last.op = "button" /\ HandleTextWith(2, T14, OkEnv)

\* the user does send the four messages
SpecRecover == InitRecover /\ [][NextRecover]_vars /\ WF_vars(NextRecover)

\* The weekly schedule under every configuration of weekday and local hour,
\* with three values of the minute.
ScheduleMinutes == {0, 30, 59}

InitSchedule == InitWith({1}, FALSE, EmptyDb)

NextSchedule ==
    \E d \in 0..6, h \in 0..23, m \in ScheduleMinutes : schedule_weekly(d, h, m)

SpecSchedule == InitSchedule /\ [][NextSchedule]_vars

\* Deleting by index: admin 1 authors posters with two different photos;
\* user 2, who is not an admin, presses the menu's delete button for the
\* first or second poster and reopens the menu.
DeletePhotos == {Tabc, T13}

DeleteAuthorButtons == {"admin:create_poster", "admin:confirm_poster"}

DeleteVisitorButtons == {"delete_poster:0", "delete_poster:1", "back_to_menu"}

InitDelete == InitWith({1}, FALSE, EmptyDb)

NextDelete ==
    \/ \E d \in DeleteAuthorButtons : handle_buttons(1, d)
    \/ \E f \in DeletePhotos : handle_photo(1, f)
    \/ \E d \in DeleteVisitorButtons : handle_buttons(2, d)

SpecDelete == InitDelete /\ [][NextDelete]_vars

\* Cancelling the VK prompt: with the VK check configured, each user presses
\* link_vk and the prompt's cancel button (back_to_menu) and sends a handle:
\* 'id1', '2', 'abc' or the invalid 'a!'.
CancelButtons == {"link_vk", "back_to_menu"}

CancelTexts == VkIds \cup {Tbad}

InitCancel == \E rows \in CheckRows : InitWith({1}, TRUE, rows)

NextCancel ==
    \/ \E u \in Users, d \in CancelButtons : handle_buttons(u, d)
    \/ \E u \in Users, t \in CancelTexts : handle_text(u, t)

SpecCancel == InitCancel /\ [][NextCancel]_vars

\* A returning user: the users table holds user 2's complete registration.
\* They send /start and /menu, press the gender buttons of the old
\* registration message and the menu button, and send texts, with every DB
\* call free to fail.
ReturningTexts == {T14, Tabc}

InitReturning == InitWith({1}, FALSE, [EmptyDb EXCEPT ![2] = Some(UserRow)])

NextReturning ==
    \/ \E a, b \in BOOLEAN : Start(2, a, b)
    \/ menu(2)
    \/ \E t \in ReturningTexts : handle_text(2, t)
    \/ \E d \in RegButtons : handle_buttons(2, d)

SpecReturning == InitReturning /\ [][NextReturning]_vars

\* ------------------------------------------------------------------------
\* Claims
\* ------------------------------------------------------------------------

\* name non-empty, gender male or female, 14 <= age <= 100
RegistrationComplete(ud) ==
    /\ Truthy(ud.name)
    /\ ud.gender \in {Some("male"), Some("female")}
    /\ ud.age # None
    /\ ud.age[1] >= 14
    /\ ud.age[1] <= 100

\* C1: in every reachable state and for every user, the in-memory registered
\* flag is true if and only if name, gender and a valid age are all present.
\* (Violated: the age step sets registered = True without looking at name
\* or gender.)
C1_RegisteredIffComplete ==
    \A u \in Users :
        user_data[u].registered <=> RegistrationComplete(user_data[u])

\* C2: after /start is handled for a user who is not fully registered, the
\* registration step is the first missing field in the order name, gender,
\* age: only name present gives "gender", name and gender present give "age".
C2_StartResumesAtFirstMissing ==
    \A u \in Users :
        (last.op = "start" /\ last.u = u /\ ~IsRegistered(user_data[u])) =>
            LET ud == user_data[u]
            IN  /\ ~Truthy(ud.name) => ud.registration_step = Some("name")
                /\ (Truthy(ud.name) /\ ud.gender = None) =>
                       ud.registration_step = Some("gender")
                /\ (Truthy(ud.name) /\ ud.gender # None /\ ud.age = None) =>
                       ud.registration_step = Some("age")

\* C2 witness: /start has just resumed a user who has a name and no gender
C2_Witness ==
    /\ last.op = "start"
    /\ last.out = "resume"
    /\ Truthy(user_data[2].name)
    /\ user_data[2].gender = None
    /\ user_data[2].registration_step = Some("gender")

\* the age each text of RegTexts stands for at the age step, per the spec:
\* "14" and "100" are accepted, "13", "101" and "abc" are not
ExpectedAge(text) ==
    IF text = <<"1", "4">> THEN Some(14)
    ELSE IF text = <<"1", "0", "0">> THEN Some(100)
    ELSE None

\* C3: at the age step a text is accepted iff it is an integer in 14..100;
\* an accepted text stores the age and completes the registration, a
\* rejected one leaves age, registered and registration_step unchanged.
C3_AgeStepAcceptsExactlyValidAges ==
    [][\A u \in Users :
          (/\ last'.op = "text"
           /\ last'.u = u
           /\ user_data[u].registration_step = Some("age")) =>
              IF ExpectedAge(last'.text) # None
              THEN /\ user_data'[u].age = ExpectedAge(last'.text)
                   /\ user_data'[u].registered
                   /\ user_data'[u].registration_step = None
              ELSE /\ user_data'[u].age = user_data[u].age
                   /\ user_data'[u].registered = user_data[u].registered
                   /\ user_data'[u].registration_step = Some("age")]_vars

\* C3 witness: "101" has just been rejected at the age step
C3_Witness ==
    /\ last.op = "text"
    /\ last.route = "registration"
    /\ last.text = <<"1", "0", "1">>
    /\ last.out = "age_range"
    /\ user_data[2].registration_step = Some("age")
    /\ ~user_data[2].registered

\* a subscription report has just been produced by check_all or by the lookup
Reported == last.out \in {"report", "found"}

\* both channel membership calls answered "member"
BothTgConfirmed == last.chk.tg1 = "member" /\ last.chk.tg2 = "member"

\* C4: a report says "all checks passed" only if every configured channel is
\* confirmed: both Telegram channels, and the VK group whenever VK is
\* enabled; an unchecked or unknown VK never counts.
\* (Violated: check_all skips the VK condition for a user with no linked
\* VK id, so with VK enabled the verdict passes with VK unchecked.)
C4_PassedOnlyIfAllConfirmed ==
    (Reported /\ last.chk.passed) =>
        /\ BothTgConfirmed
        /\ VK_ENABLED => last.chk.vk = "true"

\* C5: with VK disabled the verdict of a report equals "both Telegram
\* channels confirmed", whatever VK id is linked, in check_all and in the
\* lookup alike.
C5_VkDisabledVerdictIsTelegramOnly ==
    (Reported /\ ~VK_ENABLED) => (last.chk.passed <=> BothTgConfirmed)

\* C5 witness: VK disabled, user 2 has a linked VK id and check_all passed
C5_Witness ==
    /\ ~VK_ENABLED
    /\ last.op = "button"
    /\ last.out = "report"
    /\ Truthy(user_data[2].vk_id)
    /\ last.chk.passed

\* C6: a Telegram membership call that fails is reported as "could not
\* verify", never as a member and never as not a member.
\* (Violated: is_user_subscribed turns the exception into False and the
\* report prints the same line as for a user who left.)
C6_FailedCallReportedUnknown ==
    Reported =>
        /\ last.chk.tg1 = "error" => last.chk.line1 \notin {"ok", "not_member"}
        /\ last.chk.tg2 = "error" => last.chk.line2 \notin {"ok", "not_member"}

\* C8: a lookup handled in continuous mode (user found, not found, or an
\* error) leaves awaiting_username_check set; one handled outside continuous
\* mode clears it.
C8_LookupKeepsFlagIffContinuous ==
    [][\A u \in Users :
          (/\ last'.op = "text"
           /\ last'.u = u
           /\ last'.route = "lookup"
           /\ last'.out \in {"found", "not_found", "error"}) =>
              user_data'[u].awaiting_username_check =
                  user_data[u].continuous_check_mode]_vars

\* C8 witness: a continuous lookup ended in an error and the flag is still set
C8_Witness ==
    /\ last.op = "text"
    /\ last.route = "lookup"
    /\ last.out = "error"
    /\ user_data[1].continuous_check_mode
    /\ user_data[1].awaiting_username_check

\* the conversational modes active in a user's session
ActiveModes(ud) ==
    {m \in {"registration", "vk", "ticket", "broadcast_text", "lookup", "draft"} :
        \/ m = "registration" /\ ud.registration_step # None
        \/ m = "vk" /\ ud.awaiting_vk
        \/ m = "ticket" /\ ud.awaiting_ticket
        \/ m = "broadcast_text" /\ ud.awaiting_broadcast_text
        \/ m = "lookup" /\ ud.awaiting_username_check
        \/ m = "draft" /\ ud.poster_draft # None}

\* C7: for every user, in every reachable state, at most one of
\* registration_step, awaiting_vk, awaiting_ticket, awaiting_broadcast_text,
\* awaiting_username_check and an open poster_draft is set.
\* (Violated: no mode-entering button clears the flags of the other modes.)
C7_AtMostOneMode ==
    \A u \in Users : Cardinality(ActiveModes(user_data[u])) <= 1

\* C9: while continuous lookup mode is active, awaiting_username_check is
\* cleared only by admin:stop_check or by a lookup handled outside
\* continuous mode; /start, other buttons and other texts never clear it.
\* (Violated: /start for a registered user pops the flag.)
C9_OnlyStopClearsLookupFlag ==
    [][\A u \in Users :
          (/\ user_data[u].continuous_check_mode
           /\ user_data[u].awaiting_username_check
           /\ ~user_data'[u].awaiting_username_check) =>
              \/ last'.op = "button" /\ last'.data = "admin:stop_check"
              \/ /\ last'.op = "text"
                 /\ last'.route = "lookup"
                 /\ ~user_data[u].continuous_check_mode]_vars

\* the ticket URLs of PosterTexts that follow the http/https grammar:
\* 'https://x.com/a' does, 'ftp://x' and a run of x's do not
ExpectedUrlValid(url) == url = UrlHttps

\* what admin:confirm_poster should accept: an image, a caption of at most
\* 1024 characters, a ticket URL absent or valid
ExpectedConfirm(draftOpt) ==
    /\ draftOpt # None
    /\ Truthy(draftOpt[1].file_id)
    /\ draftOpt[1].caption # None => Len(draftOpt[1].caption[1]) <= 1024
    /\ Truthy(draftOpt[1].ticket_url) => ExpectedUrlValid(draftOpt[1].ticket_url[1])

\* C10: admin:confirm_poster appends a poster iff the draft has an image, a
\* caption no longer than 1024 and a ticket URL that is absent or a valid
\* http/https URL; a rejected confirm leaves the poster list and the current
\* poster unchanged.
C10_ConfirmAppendsIffValid ==
    [][\A u \in Users :
          (/\ last'.op = "button"
           /\ last'.u = u
           /\ last'.data = "admin:confirm_poster") =>
              IF ExpectedConfirm(user_data[u].poster_draft)
              THEN /\ Len(all_posters') = Len(all_posters) + 1
                   /\ \A i \in 1..Len(all_posters) :
                          heap'[all_posters'[i]] = heap[all_posters[i]]
                   /\ poster' = Some(all_posters'[Len(all_posters')])
                   /\ heap'[poster'[1]][1].file_id =
                          user_data[u].poster_draft[1].file_id
              ELSE /\ all_posters' = all_posters
                   /\ poster' = poster
                   /\ heap' = heap]_vars

\* C10 witness: a poster with a 1024-character caption and the https ticket
\* URL has just been confirmed
C10_Witness ==
    /\ last.op = "button"
    /\ last.data = "admin:confirm_poster"
    /\ last.out = "confirmed"
    /\ poster # None
    /\ heap[poster[1]][1].caption = Some(Cap1024)
    /\ heap[poster[1]][1].ticket_url = Some(UrlHttps)

\* C11: a confirm that fails validation (no image, caption too long, bad
\* ticket URL) leaves the poster draft in the admin's session as it was.
C11_RejectedConfirmKeepsDraft ==
    [][\A u \in Users :
          (/\ last'.op = "button"
           /\ last'.u = u
           /\ last'.data = "admin:confirm_poster"
           /\ ~ExpectedConfirm(user_data[u].poster_draft)) =>
              user_data'[u].poster_draft = user_data[u].poster_draft]_vars

\* C11 witness: a draft with a 1025-character caption was refused and is
\* still in the session
C11_Witness ==
    /\ last.op = "button"
    /\ last.data = "admin:confirm_poster"
    /\ last.out = "bad_caption"
    /\ user_data[1].poster_draft # None
    /\ user_data[1].poster_draft[1].caption = Some(Cap1025)

\* the poster dicts of a list, in order
PosterValues(h, list) == [j \in 1..Len(list) |-> h[list[j]]]

\* a sequence without its i-th element, the others in their order
WithoutIndex(seq, i) ==
    [j \in 1..(Len(seq) - 1) |-> IF j < i THEN seq[j] ELSE seq[j + 1]]

\* the current poster after a deletion that removed it: the new last
\* element, or none when the list is empty
NewCurrentIsLast ==
    IF all_posters' = << >> THEN poster' = None
    ELSE poster' = Some(all_posters'[Len(all_posters')])

C13_CurrentIsLast ==
    IF all_posters = << >> THEN poster = None
    ELSE /\ poster # None
         /\ heap[poster[1]] = heap[all_posters[Len(all_posters)]]

\* C14: only a successful admin:confirm_poster adds an element to the poster
\* list or makes a new dict the current poster.
\* (Violated: the ticket-link text creates a current poster when there is
\* none, and the next menu render appends it to the list.)
C14_OnlyConfirmCreatesPosters ==
    [][(\/ Len(all_posters') > Len(all_posters)
        \/ poster' # None /\ poster = None) =>
           /\ last'.op = "button"
           /\ last'.data = "admin:confirm_poster"
           /\ last'.out = "confirmed"]_vars

C16_TimerComputesAttendance ==
    [][ (jobs["timer"] = None /\ last'.op = "broadcast" /\ last'.data = "timer")
        => \E prev_key \in Weeks :
              \A u \in known_users :
                  user_data'[u].missed_in_row =
                      FinalizeUser(user_data[u], prev_key).missed_in_row
      ]_vars

\* the users a run has sent to or is sending to
Recipients(j) ==
    {s.u : s \in j.sends} \cup (IF j.phase = "send" THEN {j.cur} ELSE {})

\* C17: a timer-triggered and an admin-triggered broadcast of the same
\* poster are never in progress together, so no user is sent that poster by
\* both of two overlapping runs.
C17_BroadcastsSerialized ==
    ~ /\ jobs["timer"] # None
      /\ jobs["admin"] # None
      /\ jobs["timer"][1].start = jobs["admin"][1].start
      /\ Recipients(jobs["timer"][1]) \cap Recipients(jobs["admin"][1]) # {}

\* every send of the run, and its VK publication, took the poster that was
\* the most recent one when the run started
OnePosterPerRun(j) ==
    /\ \A s \in j.sends : s.shown = j.start
    /\ j.phase = "send" => j.showing = j.start
    /\ j.vk # None => j.vk = j.start

\* C18: within one broadcast run every recipient is sent the poster that was
\* the most recent at the start of the run and the same poster is published
\* to VK, whatever the admin confirms or deletes meanwhile.
C18_OnePosterPerRun ==
    /\ \A t \in Triggers : jobs[t] # None => OnePosterPerRun(jobs[t][1])
    /\ last.op = "broadcast_end" => OnePosterPerRun(last.chk)

\* the run of trigger t as the step leaves it: still in flight, or ended
\* with its summary in the history record
RunAfter(t) == IF jobs'[t] # None THEN jobs'[t][1] ELSE last'.chk

\* the step is the return of an awaited send of the run of trigger t that
\* raised
SendFailed(t) ==
    /\ jobs[t] # None
    /\ jobs[t][1].phase = "send"
    /\ last'.data = t
    /\ last'.op \in {"send", "vk", "report", "broadcast_end"}
    /\ [u |-> jobs[t][1].cur, shown |-> jobs[t][1].showing, ok |-> FALSE]
           \in RunAfter(t).sends

\* C19: a send that fails does not abort the broadcast. No step removes a
\* known user; after a failed send the run goes on to a recipient not yet
\* served, or, with none left, to the VK publication (when VK is enabled),
\* the report (when ADMIN_USER_ID is set) or its normal end; a run that
\* ends normally has attempted a send to every user known while its loop
\* ran (size0 of them), published to VK when enabled and reported when
\* ADMIN_USER_ID is set; and a run is cut short only when the known-users
\* set changed size under the loop.
C19_FailedSendKeepsBatch ==
    [][ /\ known_users \subseteq known_users'
        /\ \A t \in Triggers :
              (SendFailed(t) /\ Cardinality(known_users) = jobs[t][1].size0) =>
                  \A j \in {jobs[t][1]} : \A after \in {RunAfter(t)} :
                      IF j.todo # {}
                      THEN jobs'[t] # None /\ after.phase = "send"
                           /\ after.cur \in j.todo
                      ELSE IF VK_ENABLED
                      THEN jobs'[t] # None /\ after.phase = "vk"
                      ELSE IF ADMIN_USER_ID # 0
                      THEN jobs'[t] # None /\ after.phase = "report"
                      ELSE jobs'[t] = None /\ last'.out = "done"
        /\ (last'.op = "broadcast_end" /\ last' # last) =>
              \A j \in {last'.chk} :
                  IF last'.out = "done"
                  THEN /\ {s.u : s \in j.sends} \subseteq known_users
                       /\ Cardinality({s.u : s \in j.sends}) = j.size0
                       /\ VK_ENABLED => j.vk # None
                       /\ ADMIN_USER_ID # 0 => j.reported
                  ELSE Cardinality(known_users) # j.size0
      ]_vars

\* a run over both users has ended normally, VK publication and report
\* included, although one of its sends failed
C19_Witness ==
    /\ last.op = "broadcast_end"
    /\ last.out = "done"
    /\ {s.u : s \in last.chk.sends} = Users
    /\ \E s \in last.chk.sends : ~s.ok
    /\ last.chk.vk # None
    /\ last.chk.reported
    /\ known_users = Users

RowFields == {"name", "gender", "age", "vk_id", "username"}

\* the value stored in a field of a user's row; null when there is no row
Stored(rowOpt, f) == IF rowOpt = None THEN None ELSE rowOpt[1][f]

\* the arguments of UpsertArgs that set none of the fields a sets
OtherFieldArgs(a) ==
    [name : IF a.name = None THEN {None, Some(Tabc)} ELSE {None},
     gender : IF a.gender = None THEN {None, Some("male")} ELSE {None},
     age : IF a.age = None THEN {None, Some(14), Some(100)} ELSE {None},
     vk_id : IF a.vk_id = None THEN {None, Some(Tvk)} ELSE {None},
     username : IF a.username = None THEN {None, Some(Username(2))} ELSE {None}]

\* the row after upserting the arguments a and then the arguments b
UpsertTwice(rowOpt, a, b) ==
    upsert_user(upsert_user(rowOpt, TRUE, a.name, a.gender, a.age, a.vk_id,
                            a.username),
                TRUE, b.name, b.gender, b.age, b.vk_id, b.username)

\* C20: after a successful upsert each of name, gender, age, vk_id and
\* username holds the new value if it is non-null and the previously stored
\* value otherwise; and an upsert of other fields commutes with it, leaving
\* the fields of both set.
C20_UpsertMergesFieldByField ==
    [][(last'.op = "upsert" /\ last'.out = "stored") =>
          \A u \in {last'.u} : \A a \in {last'.chk} :
              /\ \A f \in RowFields :
                    Stored(db'[u], f) =
                        IF a[f] # None THEN a[f] ELSE Stored(db[u], f)
              /\ \A b \in OtherFieldArgs(a) :
                    \A ab \in {UpsertTwice(db[u], a, b)} :
                        /\ ab = UpsertTwice(db[u], b, a)
                        /\ \A f \in RowFields :
                              (a[f] # None \/ b[f] # None) =>
                                  Stored(ab, f) =
                                      IF a[f] # None THEN a[f] ELSE b[f]]_vars

\* C20 witness: an upsert with a null name and the age 100 has just kept the
\* stored name and replaced the stored age
C20_Witness ==
    /\ last.op = "upsert"
    /\ last.out = "stored"
    /\ last.chk.name = None
    /\ last.chk.age = Some(100)
    /\ db[2] # None
    /\ db[2][1].name = Some(Tabc)
    /\ db[2][1].age = Some(100)
\* the field a registration step has just accepted is in the users table
StepPersisted(u) ==
    /\ db'[u] # None
    /\ last'.out = "name_saved" => db'[u][1].name = user_data'[u].name
    /\ last'.out = "gender_saved" => db'[u][1].gender = user_data'[u].gender
    /\ last'.out = "age_accepted" => db'[u][1].age = user_data'[u].age

\* C21: when the write of a registration step (the name, the gender, the
\* final record) fails, the conversation does not advance: registration_step
\* keeps its value and registered is not set.
C21_FailedWriteDoesNotAdvance ==
    [][\A u \in Users :
          (/\ last'.op \in {"text", "button"}
           /\ last'.u = u
           /\ last'.out \in {"name_saved", "gender_saved", "age_accepted"}
           /\ ~StepPersisted(u)) =>
              /\ user_data'[u].registration_step = user_data[u].registration_step
              /\ ~user_data'[u].registered]_vars

\* C22: a value entered during registration is never dropped. No step
\* replaces a name, gender or age held in the session by an empty one, and
\* when the age step completes the registration and its write is stored,
\* the stored name, gender and age are the ones held in the session.
C22_EnteredValuesSurvive ==
    [][\A u \in Users :
          /\ Truthy(user_data[u].name) => Truthy(user_data'[u].name)
          /\ user_data[u].gender # None => user_data'[u].gender # None
          /\ user_data[u].age # None => user_data'[u].age # None
          /\ (/\ last'.op = "text"
              /\ last'.u = u
              /\ last'.out = "age_accepted"
              /\ StepPersisted(u)) =>
                 /\ db'[u][1].name = user_data[u].name
                 /\ db'[u][1].gender = user_data[u].gender]_vars

\* the awaiting flags of a session
AwaitingFlags(ud) ==
    <<ud.awaiting_vk, ud.awaiting_ticket, ud.awaiting_broadcast_text,
      ud.awaiting_username_check, ud.continuous_check_mode>>

\* C23: a text that arrives while registration_step is set is handled by
\* the registration step alone, whatever else is armed: no awaiting flag,
\* no draft, no poster, no linked VK id changes, no lookup report is made
\* and no broadcast is sent or started.
C23_RegistrationTextFirst ==
    [][\A u \in Users :
          (/\ last'.op = "text"
           /\ last'.u = u
           /\ user_data[u].registration_step # None) =>
              /\ last'.route = "registration"
              /\ last'.out \in {"name_saved", "age_accepted", "age_format",
                                "age_range", "ignored"}
              /\ last'.chk = NoCheck
              /\ AwaitingFlags(user_data'[u]) = AwaitingFlags(user_data[u])
              /\ user_data'[u].poster_draft = user_data[u].poster_draft
              /\ user_data'[u].vk_id = user_data[u].vk_id
              /\ UNCHANGED <<poster, all_posters, heap, jobs>>]_vars

\* a name has just been taken from a text although the lookup, ticket,
\* broadcast and VK prompts were all armed and a draft waited for its caption
C23_Witness ==
    /\ last.op = "text"
    /\ last.route = "registration"
    /\ last.out = "name_saved"
    /\ AwaitingFlags(user_data[1]) = <<TRUE, TRUE, TRUE, TRUE, TRUE>>
    /\ user_data[1].poster_draft # None
    /\ user_data[1].poster_draft[1].step = "caption"

\* the place of a draft step in the order photo, caption, link, preview
StepIndex(step) ==
    CASE step = "photo" -> 1
      [] step = "caption" -> 2
      [] step = "link" -> 3
      [] step = "preview" -> 4

\* C24: a photo moves a draft from step photo to step caption and leaves a
\* draft at any other step unchanged; a text moves a draft at step caption
\* or link one step forward and leaves a draft at step photo or preview
\* unchanged.
C24_DraftStepsInOrder ==
    [][\A u \in Users :
          (/\ last'.u = u
           /\ last'.op \in {"photo", "text"}
           /\ user_data[u].poster_draft # None) =>
              \A d \in {user_data[u].poster_draft[1]} :
                  IF \/ last'.op = "photo" /\ d.step = "photo"
                     \/ last'.op = "text" /\ d.step \in {"caption", "link"}
                  THEN /\ user_data'[u].poster_draft # None
                       /\ StepIndex(user_data'[u].poster_draft[1].step) =
                              StepIndex(d.step) + 1
                  ELSE user_data'[u].poster_draft = Some(d)]_vars

\* a photo has just been ignored by a draft that waits for its link
C24_Witness ==
    /\ last.op = "photo"
    /\ last.out = "ignored"
    /\ user_data[1].poster_draft # None
    /\ user_data[1].poster_draft[1].step = "link"
    /\ user_data[1].poster_draft[1].file_id = Some(Tabc)

\* C25: admin:confirm_poster pressed while the draft is at step photo,
\* caption or link publishes nothing and leaves the draft as it is.
C25_ConfirmOnlyAtPreview ==
    [][\A u \in Users :
          (/\ last'.op = "button"
           /\ last'.u = u
           /\ last'.data = "admin:confirm_poster"
           /\ user_data[u].poster_draft # None
           /\ user_data[u].poster_draft[1].step \in {"photo", "caption", "link"}) =>
              /\ UNCHANGED <<poster, all_posters, heap>>
              /\ user_data'[u].poster_draft = user_data[u].poster_draft]_vars

\* C26: a poster draft exists only in the session of a user of the admin
\* set, and an admin:* button pressed by a user outside the admin set
\* changes neither the poster list, the current poster, nor the sender's
\* draft or awaiting flags.
C26_OnlyAdminsAuthor ==
    [][\A u \in Users :
          /\ user_data'[u].poster_draft # None => u \in admins' \cup ADMIN_IDS'
          /\ (/\ last'.op = "button"
              /\ last'.u = u
              /\ last'.data \in AdminData
              /\ u \notin admins \cup ADMIN_IDS) =>
                 /\ UNCHANGED <<poster, all_posters, heap>>
                 /\ user_data'[u].poster_draft = user_data[u].poster_draft
                 /\ AwaitingFlags(user_data'[u]) = AwaitingFlags(user_data[u])]_vars

\* user 2, outside the admin set and waiting for a VK handle, has just
\* been refused admin:create_poster while admin 1 holds a draft
C26_Witness ==
    /\ last.op = "button"
    /\ last.u = 2
    /\ last.data = "admin:create_poster"
    /\ last.out = "denied"
    /\ 2 \notin admins \cup ADMIN_IDS
    /\ user_data[2].awaiting_vk
    /\ user_data[2].poster_draft = None
    /\ user_data[1].poster_draft # None

C28_RegistrationRecovers ==
    <>(/\ IsRegistered(user_data[2])
       /\ db[2] # None
       /\ Truthy(db[2][1].name)
       /\ db[2][1].gender # None
       /\ db[2][1].age # None)

\* /start found a gender and an age but no name and asked for the name;
\* the name has just been taken and the stale gender is still there
C28_Witness ==
    /\ last.op = "text"
    /\ last.text = Tabc
    /\ last.out = "name_saved"
    /\ user_data[2].gender = Some("female")
    /\ user_data[2].age = Some(100)
    /\ ~user_data[2].registered
    /\ user_data[2].registration_step = Some("gender")

\* C29: an invalid handle ('a!') received while the VK link input is
\* awaited leaves the linked VK id unchanged and the user still in the
\* awaiting-VK-input mode.
C29_InvalidHandleKeepsPrompt ==
    [][\A u \in Users :
          (/\ last'.op = "text"
           /\ last'.u = u
           /\ last'.route = "vk"
           /\ last'.text = Tbad) =>
              /\ user_data'[u].vk_id = user_data[u].vk_id
              /\ user_data'[u].awaiting_vk]_vars

\* a weekday and a time of day as the minute of the week
MinuteOfWeek(day, hour, minute) == day * 24 * 60 + hour * 60 + minute

\* C30: for every weekday d and local time HH:MM the job is scheduled, in
\* UTC, at the instant of weekday d at HH:MM in MSK (UTC+3), local hours
\* 0..2 included, where the UTC time falls on the previous day.
C30_ScheduledAtMskInstant ==
    last.op = "schedule" =>
        \A day \in last.chk.days :
            MinuteOfWeek(day, last.chk.hour, last.chk.minute) =
                (MinuteOfWeek(last.chk.WEEKLY_DAY, last.chk.WEEKLY_HOUR_LOCAL,
                              last.chk.WEEKLY_MINUTE)
                 - MskOffsetHours * 60) % (7 * 24 * 60)

\* C31: pressing admin:confirm_poster twice for one draft appends exactly one
\* poster: the accepted press lengthens the list by one and removes the draft,
\* and a confirm press by the same user directly after it is answered "no
\* photo" and leaves the poster list and the current poster as they were.
C31_ConfirmTwiceAppendsOnce ==
    [][(/\ last'.op = "button"
        /\ last'.data = "admin:confirm_poster")
       => /\ last'.out = "confirmed"
             => /\ Len(all_posters') = Len(all_posters) + 1
                /\ user_data'[last'.u].poster_draft = None
          /\ (/\ last.op = "button"
              /\ last.data = "admin:confirm_poster"
              /\ last.out = "confirmed"
              /\ last'.u = last.u)
             => /\ last'.out = "no_photo"
                /\ all_posters' = all_posters
                /\ poster' = poster]_vars

\* a confirm press that found no draft, after a poster was published
C31_Witness ==
    /\ last.op = "button"
    /\ last.data = "admin:confirm_poster"
    /\ last.u = 1
    /\ last.out = "no_photo"
    /\ user_data[1].poster_draft = None
    /\ Len(all_posters) = 1
    /\ poster = Some(all_posters[1])

\* C32: the poster list and the current poster change only on events of a
\* user in the admin set: a button press, a delete_poster:<i> press in
\* particular, by a user who is not an admin leaves both unchanged.
C32_OnlyAdminsChangePosters ==
    [][(/\ last'.op = "button"
        /\ last'.u \notin get_admins)
       => /\ all_posters' = all_posters
          /\ poster' = poster]_vars

\* C33: no user becomes an admin through their own event: a user outside the
\* admin set who sends /admin or presses a button is still outside it
\* afterwards, with or without an admin id in the environment.
C33_NoSelfPromotion ==
    [][\A u \in Users :
          (/\ last'.u = u
           /\ last'.op \in {"admin", "button"}
           /\ u \notin get_admins)
          => u \notin admins' \cup ADMIN_IDS']_vars

\* C34: the cancel button of the VK link prompt (back_to_menu) ends the
\* prompt: the text the user sends directly after pressing it is not taken
\* as a VK handle and their linked VK id stays as it was.
C34_CancelEndsVkPrompt ==
    [][\A u \in Users :
          (/\ last.op = "button"
           /\ last.data = "back_to_menu"
           /\ last.u = u
           /\ last'.op = "text"
           /\ last'.u = u)
          => /\ last'.route # "vk"
             /\ user_data'[u].vk_id = user_data[u].vk_id]_vars

\* C35: a registration step is active only for users who are not registered:
\* in every reachable state, a user whose registration_step is set does not
\* have the registered flag.
C35_StepOnlyWhileUnregistered ==
    \A u \in Users :
        user_data[u].registration_step # None => ~user_data[u].registered

\* C36: when /start has been handled, the user is either treated as
\* registered (the registered flag with name, gender and age present) or has
\* registration_step set to "name", "gender" or "age".
C36_StartLeavesRegisteredOrStep ==
    last.op = "start" =>
        \/ IsRegistered(user_data[last.u])
        \/ user_data[last.u].registration_step
               \in {Some("name"), Some("gender"), Some("age")}

\* /start has just resumed a registration that has a name but no gender
C36_Witness ==
    /\ last.op = "start"
    /\ last.out = "resume"
    /\ ~user_data[last.u].registered
    /\ Truthy(user_data[last.u].name)
    /\ user_data[last.u].registration_step = Some("gender")

\* C37: the Telegram success count of the broadcast report is the number of
\* recipients of the run whose send succeeded; a recipient whose send failed
\* is not counted.
C37_SuccessCountIsSuccesses ==
    \A t \in Triggers :
        (jobs[t] # None /\ jobs[t][1].phase = "report") =>
            jobs[t][1].success_count =
                Cardinality({s \in jobs[t][1].sends : s.ok})

\* C38: a broadcast run of the timer attempts a send to every user that was
\* known when it started and then reaches its report, also when /start of a
\* new user adds to the known users during the fan-out: every run that ends
\* has ended normally, with one send per user known at its start and, when
\* ADMIN_USER_ID is set, its report sent.
C38_FanoutSurvivesNewUser ==
    (last.op = "broadcast_end" /\ last.data = "timer") =>
        /\ last.out = "done"
        /\ Cardinality({s.u : s \in last.chk.sends}) = last.chk.size0
        /\ ADMIN_USER_ID # 0 => last.chk.reported

\* a poster dict with an image, a caption within the limit and a ticket
\* link that is absent or a valid http/https URL
WellFormedPoster(d) ==
    /\ Truthy(d.file_id)
    /\ is_valid_caption(IF Truthy(d.caption) THEN d.caption[1] ELSE << >>)
    /\ ~Truthy(d.ticket_url) \/ is_valid_url(d.ticket_url[1])

\* C39: every poster of the poster list is well-formed in every reachable
\* state: it has an image, a caption of at most 1024 characters and a ticket
\* link that is absent or matches the URL grammar.
C39_ListedPostersWellFormed ==
    \A i \in 1..Len(all_posters) :
        /\ heap[all_posters[i]] # None
        /\ WellFormedPoster(heap[all_posters[i]][1])

\* the VK result a report was computed from, as is_user_subscribed_vk
\* returned it; "none" when the call was not made
ReportVkStatus == IF last.chk.vk = "unchecked" THEN "none" ELSE last.chk.vk

\* C40: the two aggregate computations agree: on the per-channel results of
\* any report (both Telegram channels, VK enabled or not, a VK id linked or
\* not, the VK result) the verdict of check_all and the verdict of the admin
\* lookup are equal, and equal to the verdict the report shows.
C40_AggregatesAgree ==
    Reported =>
        \A linked \in {last.chk.line3 # "not_linked"} :
            /\ CheckAllPassed(ChannelOk(last.chk.tg1), ChannelOk(last.chk.tg2),
                              VK_ENABLED, linked, ReportVkStatus)
                  = LookupPassed(ChannelOk(last.chk.tg1), ChannelOk(last.chk.tg2),
                                 VK_ENABLED, ReportVkStatus)
            /\ last.chk.passed
                  = LookupPassed(ChannelOk(last.chk.tg1), ChannelOk(last.chk.tg2),
                                 VK_ENABLED, ReportVkStatus)

====
